---- MODULE Spec2Model ----
(***************************************************************************)
(* MASLD Results Viewer: the filter engine (data_loader.filter_dataframe,  *)
(* app.apply_global_filters, ui.render_global_filter_bar), the validator   *)
(* (data_loader.validate_results_structure) and the viewer's run           *)
(* (app.main, app.sidebar_setup).                                          *)
(*                                                                         *)
(* Conventions.  A Python value that may be None is a sequence of length   *)
(* at most one: None is <<>> and a present value x is <<x>>.  Floats are   *)
(* integers in hundredths (the sliders step by 0.01), so 0.5 is 50 and 1.0 *)
(* is 100.  A DataFrame is the sequence of its rows, each row a record of  *)
(* its columns; a Python list used only for membership is a set.           *)
(***************************************************************************)
EXTENDS Integers, Sequences, FiniteSets, TLC

\* ------------------------------------------------------------------ bounds
\* The largest number of rows of a case index the model draws.
MaxRows == 3

\* ------------------------------------------------------------ Python values
None == <<>>
Some(x) == <<x>>
IsNone(o) == Len(o) = 0
Val(o) == o[1]

\* dict.get(key, default) on a dict modelled as a function of its keys.
Get(d, k, default) == IF k \in DOMAIN d THEN d[k] ELSE default

\* dict.get(key): None when the key is absent.
GetOpt(d, k) == IF k \in DOMAIN d THEN Some(d[k]) ELSE None

\* The empty dict {}.
EmptyDict == <<>>

\* The result of a call: the exception it raised ("none" when it returned), the
\* value it returned, and the caller's argument object as the call left it.
Return(v, a) == [exc |-> "none", ret |-> v, arg |-> a]
Raise(e, a) == [exc |-> e, ret |-> None, arg |-> a]

RECURSIVE Max(_)
Max(S) == IF S = {} THEN 0 ELSE LET x == CHOOSE y \in S : TRUE IN
          LET m == Max(S \ {x}) IN IF x > m THEN x ELSE m

Range(s) == {s[i] : i \in 1..Len(s)}

\* ---------------------------------------------------------------- the data
RiskBands == {"LOW", "LOW-MOD", "MODERATE", "HIGH"}

\* The column values of the case records the model draws rows from:
\* probabilities on both sides of and on the slider positions 0.5 and 1.0,
\* uncertainties 0, 0.05 and 0.15, both classes, two folds, three bands.
CaseValues ==
  { [fold |-> 0, y_true |-> 0, p_calibrated |-> 20, uncertainty_std |-> 5,
     risk_band |-> "LOW"],
    [fold |-> 1, y_true |-> 1, p_calibrated |-> 50, uncertainty_std |-> 0,
     risk_band |-> "MODERATE"],
    [fold |-> 0, y_true |-> 1, p_calibrated |-> 90, uncertainty_std |-> 15,
     risk_band |-> "HIGH"] }

\* Row i of a case index: its case_id is distinct from every other row's.
MkRow(i, c) ==
  [case_id |-> i, fold |-> c.fold, y_true |-> c.y_true,
   p_calibrated |-> c.p_calibrated, uncertainty_std |-> c.uncertainty_std,
   risk_band |-> c.risk_band]

\* Every case index of at most MaxRows rows (the empty one included).
DataFrames ==
  UNION { { [i \in 1..n |-> MkRow(i, s[i])] : s \in [1..n -> CaseValues] }
          : n \in 0..MaxRows }

\* Column col of a DataFrame, as the set of its values (Series.unique()).
unique(rows, col) == {rows[i][col] : i \in 1..Len(rows)}

\* ------------------------------------------------------------ filter engine
Reverse(s) == [i \in 1..Len(s) |-> s[Len(s) + 1 - i]]

\* The selection returned newest first (a [::-1] on the selection).
isin_reversed(rows, col, values) == Reverse(SelectSeq(rows, LAMBDA r : r[col] \in values))

\* filtered[filtered[col].isin(values)]
isin(rows, col, values) == SelectSeq(rows, LAMBDA r : r[col] \in values)

\* filtered[filtered[col] >= v]
ge(rows, col, v) == SelectSeq(rows, LAMBDA r : r[col] >= v)

\* filtered[filtered[col] < v]: the upper bound exclusive.
le_exclusive(rows, col, v) == SelectSeq(rows, LAMBDA r : r[col] < v)

\* filtered[filtered[col] <= v]
le(rows, col, v) == SelectSeq(rows, LAMBDA r : r[col] <= v)

\* `if risk_bands is not None`: an empty list is a constraint too.
Truthy_not_none(o) == ~IsNone(o)

\* `if risk_bands and len(risk_bands) > 0`: a list that is not None and not empty.
Truthy(o) == ~IsNone(o) /\ Val(o) # {}

\* `if y_true_values is not None and len(y_true_values) > 0`.
NotNoneNonEmpty(o) == ~IsNone(o) /\ Cardinality(Val(o)) > 0

\* `filtered = df.copy()`: the rows the steps work on.
df_copy_skip_first(rows) == IF Len(rows) = 0 THEN rows ELSE Tail(rows)
df_copy(rows) == rows

\* The caller's object once the call is over.  Every step rebinds the local
\* `filtered` to a new selection of the copy, so df is as the caller passed it.
arg_in_place(df, result) == Some(result)
arg_after_call(df, result) == df

\* The three membership steps chained with elif: only the first active one runs.
filter_dataframe_elif(df, risk_bands, y_true_values, folds, prob_min, prob_max, uncert_min, uncert_max) ==
  IF IsNone(df) THEN Raise("AttributeError", df)
  ELSE
    LET f0 == df_copy(Val(df))
        f3 == IF Truthy(risk_bands) THEN isin(f0, "risk_band", Val(risk_bands))
              ELSE IF NotNoneNonEmpty(y_true_values)
                   THEN isin(f0, "y_true", Val(y_true_values))
              ELSE IF Truthy(folds) THEN isin(f0, "fold", Val(folds)) ELSE f0
        f4 == IF ~IsNone(prob_min) THEN ge(f3, "p_calibrated", Val(prob_min)) ELSE f3
        f5 == IF ~IsNone(prob_max) THEN le(f4, "p_calibrated", Val(prob_max)) ELSE f4
        f6 == IF ~IsNone(uncert_min) THEN ge(f5, "uncertainty_std", Val(uncert_min)) ELSE f5
        f7 == IF ~IsNone(uncert_max) THEN le(f6, "uncertainty_std", Val(uncert_max)) ELSE f6
    IN Return(Some(f7), arg_after_call(df, f7))

\* data_loader.filter_dataframe.  df.copy() on None raises AttributeError; on a
\* DataFrame the seven steps run in the order of the source, each on the
\* result of the one before.
filter_dataframe(df, risk_bands, y_true_values, folds, prob_min, prob_max, uncert_min, uncert_max) ==
  IF IsNone(df) THEN Raise("AttributeError", df)
  ELSE
    LET f0 == df_copy(Val(df))
        f1 == IF Truthy(risk_bands) THEN isin(f0, "risk_band", Val(risk_bands)) ELSE f0
        f2 == IF NotNoneNonEmpty(y_true_values)
              THEN isin(f1, "y_true", Val(y_true_values)) ELSE f1
        f3 == IF Truthy(folds) THEN isin(f2, "fold", Val(folds)) ELSE f2
        f4 == IF ~IsNone(prob_min) THEN ge(f3, "p_calibrated", Val(prob_min)) ELSE f3
        f5 == IF ~IsNone(prob_max) THEN le(f4, "p_calibrated", Val(prob_max)) ELSE f4
        f6 == IF ~IsNone(uncert_min) THEN ge(f5, "uncertainty_std", Val(uncert_min)) ELSE f5
        f7 == IF ~IsNone(uncert_max) THEN le(f6, "uncertainty_std", Val(uncert_max)) ELSE f6
    IN Return(Some(f7), arg_after_call(df, f7))

\* utils.filter_dataframe: a copy of the frame, then the seven steps in the
\* order of the source, each on the result of the one before.
utils_filter_dataframe(df, risk_bands, y_true_values, folds, prob_min, prob_max, uncert_min, uncert_max) ==
  IF IsNone(df) THEN Raise("AttributeError", df)
  ELSE
    LET f0 == df_copy(Val(df))
        f1 == IF Truthy(risk_bands) THEN isin(f0, "risk_band", Val(risk_bands)) ELSE f0
        f2 == IF NotNoneNonEmpty(y_true_values)
              THEN isin(f1, "y_true", Val(y_true_values)) ELSE f1
        f3 == IF Truthy(folds) THEN isin(f2, "fold", Val(folds)) ELSE f2
        f4 == IF ~IsNone(prob_min) THEN ge(f3, "p_calibrated", Val(prob_min)) ELSE f3
        f5 == IF ~IsNone(prob_max) THEN le(f4, "p_calibrated", Val(prob_max)) ELSE f4
        f6 == IF ~IsNone(uncert_min) THEN ge(f5, "uncertainty_std", Val(uncert_min)) ELSE f5
        f7 == IF ~IsNone(uncert_max) THEN le(f6, "uncertainty_std", Val(uncert_max)) ELSE f6
    IN Return(Some(f7), arg_after_call(df, f7))

\* The filtered frame written back over the caller's index.
apply_global_filters_in_place(index_df, fdict) ==
  LET r == filter_dataframe(index_df,
                            GetOpt(fdict, "risk_bands"),
                            GetOpt(fdict, "y_true"),
                            GetOpt(fdict, "folds"),
                            Some(Get(fdict, "prob_range", <<0, 100>>)[1]),
                            Some(Get(fdict, "prob_range", <<0, 100>>)[2]),
                            Some(Get(fdict, "uncert_range", <<0, 100>>)[1]),
                            Some(Get(fdict, "uncert_range", <<0, 100>>)[2]))
  IN IF r.exc = "none" THEN [r EXCEPT !.arg = r.ret] ELSE r

\* app.apply_global_filters: the filter dict's entries, with the defaults of
\* its .get calls.
apply_global_filters(index_df, fdict) ==
  filter_dataframe(index_df,
                   GetOpt(fdict, "risk_bands"),
                   GetOpt(fdict, "y_true"),
                   GetOpt(fdict, "folds"),
                   Some(Get(fdict, "prob_range", <<0, 100>>)[1]),
                   Some(Get(fdict, "prob_range", <<0, 100>>)[2]),
                   Some(Get(fdict, "uncert_range", <<0, 100>>)[1]),
                   Some(Get(fdict, "uncert_range", <<0, 100>>)[2]))

\* --------------------------------------------------------------- aggregates
\* A float: a number (in hundredths) or NaN.
NaN == [nan |-> TRUE, value |-> 0]
Float(x) == [nan |-> FALSE, value |-> x]

RECURSIVE SumOf(_, _)
SumOf(rows, col) == IF Len(rows) = 0 THEN 0 ELSE rows[1][col] + SumOf(Tail(rows), col)

\* df[col].mean(): NaN for a Series without values, else the mean (to the
\* hundredth below).
Series_mean(rows, col) ==
  IF Len(rows) = 0 THEN NaN ELSE Float(SumOf(rows, col) \div Len(rows))

\* The rows in descending order of col, rows of equal value in their order
\* in `rows` (a stable sort): value by value of vals, the largest first.
RECURSIVE sort_descending(_, _, _)
sort_descending(rows, col, vals) ==
  IF vals = {} THEN <<>>
  ELSE SelectSeq(rows, LAMBDA r : r[col] = Max(vals)) \o
       sort_descending(rows, col, vals \ {Max(vals)})

\* nlargest taking, of rows of equal value, the last first (keep='last').
nlargest_keep_last(rows, n, col) ==
  SubSeq(sort_descending(Reverse(rows), col, unique(rows, col)), 1,
         IF n < Len(rows) THEN n ELSE Len(rows))

\* df.nlargest(n, col), keep='first': the n rows of largest col in descending
\* order, rows of equal value in their original order; all rows when there
\* are fewer than n.
nlargest(rows, n, col) ==
  SubSeq(sort_descending(rows, col, unique(rows, col)), 1,
         IF n < Len(rows) THEN n ELSE Len(rows))

\* The dashboard's "Top ..." table: the five rows of largest col, as case_id,
\* risk_band and col (round(3) leaves a value in hundredths as it is).
top_cases(filtered_df, col) ==
  LET top == nlargest(filtered_df, 5, col) IN
    [k \in 1..Len(top) |->
       [case_id |-> top[k].case_id, risk_band |-> top[k].risk_band, value |-> top[k][col]]]

\* The metrics with every case above the LOW band counted as high risk.
key_metrics_above_low(filtered_df, artifacts) ==
  LET n_kept == Len(filtered_df)
      n_high_risk == Len(SelectSeq(filtered_df, LAMBDA r : r.risk_band # "LOW"))
  IN [n_cases |-> n_kept,
      n_high_risk |-> n_high_risk,
      pct_high |-> IF n_kept > 0 THEN (n_high_risk * 10000) \div n_kept ELSE 0,
      avg_prob |-> Series_mean(filtered_df, "p_calibrated"),
      avg_uncert |-> Series_mean(filtered_df, "uncertainty_std"),
      n_images |-> Get(artifacts, "case_image_count", 0),
      top_high |-> top_cases(filtered_df, "p_calibrated"),
      top_uncert |-> top_cases(filtered_df, "uncertainty_std")]

\* app.page_dashboard, "Compute metrics" and the two top tables, over the
\* filtered view.
key_metrics(filtered_df, artifacts) ==
  LET n_kept == Len(filtered_df)
      n_high_risk == Len(SelectSeq(filtered_df, LAMBDA r : r.risk_band = "HIGH"))
  IN [n_cases |-> n_kept,
      n_high_risk |-> n_high_risk,
      pct_high |-> IF n_kept > 0 THEN (n_high_risk * 10000) \div n_kept ELSE 0,
      avg_prob |-> Series_mean(filtered_df, "p_calibrated"),
      avg_uncert |-> Series_mean(filtered_df, "uncertainty_std"),
      n_images |-> Get(artifacts, "case_image_count", 0),
      top_high |-> top_cases(filtered_df, "p_calibrated"),
      top_uncert |-> top_cases(filtered_df, "uncertainty_std")]

\* utils.compute_summary_metrics: {} for an empty frame.
compute_summary_metrics(rows) ==
  IF Len(rows) = 0 THEN EmptyDict
  ELSE [n_cases |-> Len(rows),
        n_masld |-> SumOf(rows, "y_true"),
        n_healthy |-> Len(SelectSeq(rows, LAMBDA r : r.y_true = 0)),
        mean_probability |-> Series_mean(rows, "p_calibrated"),
        mean_uncertainty |-> Series_mean(rows, "uncertainty_std"),
        risk_band_dist |-> [b \in unique(rows, "risk_band") |->
                              Len(SelectSeq(rows, LAMBDA r : r.risk_band = b))]]

\* ------------------------------------------------------------ filter state
\* A slider's value: a pair lo <= hi of positions between 0 and hi_max.
SliderValues(positions, hi_max) ==
  { <<lo, hi>> : lo \in {x \in positions : x <= hi_max},
                 hi \in {x \in positions : x <= hi_max} } \cap
  { p \in positions \X positions : p[1] <= p[2] }

\* The slider positions the model draws.
ProbPositions == {0, 50, 100}
UncertPositions == {0, 5, 15}

RECURSIVE Min(_)
Min(S) == IF S = {} THEN 0 ELSE LET x == CHOOSE y \in S : TRUE IN
          IF S = {x} THEN x ELSE LET m == Min(S \ {x}) IN IF x < m THEN x ELSE m

\* index_df['uncertainty_std'].min() where the source takes .max()
uncert_max_of_min(rows) == Min(unique(rows, "uncertainty_std"))

\* index_df['uncertainty_std'].max()
uncert_max_of(rows) == Max(unique(rows, "uncertainty_std"))

\* The state render_global_filter_bar initialises for a view.
InitialFilters(rows) ==
  [risk_bands |-> {}, y_true |-> {}, folds |-> {},
   prob_range |-> <<0, 100>>, uncert_range |-> <<0, uncert_max_of(rows)>>]

\* ui.render_global_filter_bar: the dicts it can return for index_df.  None or
\* an empty index gives {}; otherwise the session's filter state for the view,
\* each entry the value of its widget: a multiselect over the column's values
\* (over [0, 1] for the class), a slider over [0, 1], a slider over
\* [0, max uncertainty_std].
render_global_filter_bar(index_df) ==
  IF IsNone(index_df) \/ Len(Val(index_df)) = 0 THEN {EmptyDict}
  ELSE LET rows == Val(index_df) IN
    { [risk_bands |-> rb, y_true |-> yt, folds |-> fo, prob_range |-> pr, uncert_range |-> ur] :
        rb \in SUBSET unique(rows, "risk_band"),
        yt \in SUBSET {0, 1},
        fo \in SUBSET unique(rows, "fold"),
        pr \in SliderValues(ProbPositions, 100),
        ur \in SliderValues(UncertPositions \cup {uncert_max_of(rows)}, uncert_max_of(rows)) }

\* -------------------------------------------------------------- variables
\* The filter as a machine: the caller's case index and filter dict, the
\* results of the first call and of the call on its result, and the caller's
\* position; the aggregates computed over the result of the first call.
VARIABLES df, filters, filtered, refiltered, pc, aggregates

\* The viewer: the files under the results roots and what they hold (the
\* pipeline's output, which the viewer only reads), the state of numpy's global
\* generator, the sidebar's widgets, st.session_state, the entries of
\* st.cache_data, the result of the run's validate call, what the last run of
\* main rendered, the keys it ran load_all_data for, the bundle as the
\* run's page function left it, and the state of Streamlit's script runner.
VARIABLES files, contents, rng, widgets, session_state, cache, validated, screen, loads, bundle,
          runtime

\* A caller of the loader: its last call of load_all_data (the root, the demo
\* flag, the result), and the result of its first demo call.
VARIABLES loaded, first_demo

\* A caller of both modules: its last call of a function that utils and
\* data_loader both define, with what each module's function gave.
VARIABLES twins

filtervars == <<df, filters, filtered, refiltered, pc, aggregates>>
appvars == <<files, contents, rng, widgets, session_state, cache, validated, screen, loads, bundle,
             runtime>>
loadervars == <<loaded, first_demo>>
twinvars == <<twins>>
vars == <<filtervars, appvars, loadervars, twinvars>>

\* ------------------------------------------------------------------- paths
\* A path is the sequence of its components; an absolute path starts at "/".
IsAbsolute(path) == Len(path) > 0 /\ path[1] = "/"

\* results_root / req
Join(root, rel) == root \o rel

\* The directory the viewer runs in.
Cwd == <<"/", "srv", "app">>

\* Path(results_path).resolve(): the path made absolute from the working
\* directory, each ".." dropping the component before it.
RECURSIVE ResolveFrom(_, _)
ResolveFrom(base, rel) ==
  IF Len(rel) = 0 THEN base
  ELSE IF Head(rel) = ".."
       THEN ResolveFrom(IF Len(base) > 1 THEN SubSeq(base, 1, Len(base) - 1) ELSE base, Tail(rel))
       ELSE ResolveFrom(Append(base, Head(rel)), Tail(rel))

Resolve(results_path) ==
  IF IsAbsolute(results_path) THEN ResolveFrom(<<"/">>, Tail(results_path))
  ELSE ResolveFrom(Cwd, results_path)

\* The text input's default, "../results", and the other folder a user types.
default_path == <<"..", "results">>
ResultsPaths == {default_path, <<"..", "archive">>}
Roots == {Resolve(rp) : rp \in ResultsPaths}

explainability_reports == <<"explainability_reports">>
index_csv == <<"explainability_reports", "index.csv">>
case_mapping_csv == <<"explainability_reports", "case_mapping.csv">>
patient_metrics_summary_csv == <<"patient_metrics_summary.csv">>
run_config_json == <<"run_config.json">>
calibration_plots == <<"calibration_plots">>
roc_curves_png == <<"roc_curves_patient_level.png">>
pr_curves_png == <<"pr_curves_patient_level.png">>
confusion_matrices_png == <<"confusion_matrices_patient_level.png">>

\* f"Case-{i:02d}", the text of case identifier i, and f"{case_id}.png".
case_id_text(i) == "Case-" \o (IF i < 10 THEN "0" ELSE "") \o ToString(i)
png_of(case_id) == case_id_text(case_id) \o ".png"

\* The numbers of the cases an image may be stored for, and a plot name.
ImageNumbers == {1, 2}
calibration_png == "calibration_curve.png"

\* path.exists(): files and directories alike are paths of fs.files.
exists(fs, path) == path \in fs.files

\* directory.glob(pattern): the entries of the directory whose name matches.
\* Of the names the model stores, "Case-*.png" matches the case images and
\* "*.png" those and the plots.
fnmatch(name, pattern) ==
  IF pattern = "Case-*.png" THEN name \in {png_of(i) : i \in ImageNumbers}
  ELSE IF pattern = "*.png"
       THEN name \in {png_of(i) : i \in ImageNumbers} \cup
                     {calibration_png, roc_curves_png[1], pr_curves_png[1], confusion_matrices_png[1]}
       ELSE FALSE

glob(fs, directory, pattern) ==
  { path \in fs.files :
      /\ Len(path) = Len(directory) + 1
      /\ SubSeq(path, 1, Len(directory)) = directory
      /\ fnmatch(path[Len(path)], pattern) }

\* A file its reader cannot parse, and one it reads as a table (or, for json,
\* as a dict).
Malformed == [parse |-> "error", rows |-> <<>>]
Table(rows) == [parse |-> "ok", rows |-> rows]

\* pd.read_csv(path): the table, or an exception.
read_csv(fs, path) ==
  IF fs.contents[path].parse = "ok" THEN Return(Some(fs.contents[path].rows), path)
  ELSE Raise("ParserError", path)

\* json.load(open(path)): the dict, or an exception.
json_load(fs, path) ==
  IF fs.contents[path].parse = "ok" THEN Return(Some(fs.contents[path].rows), path)
  ELSE Raise("JSONDecodeError", path)

\* ---------------------------------------------------------------- validator
required == <<index_csv, case_mapping_csv>>

\* missing.append(str(path)): the joined path where the source appends req.
validate_results_structure_path(fs, results_root) ==
  LET absent == SelectSeq(required, LAMBDA req : ~exists(fs, Join(results_root, req)))
      missing == [i \in 1..Len(absent) |-> Join(results_root, absent[i])]
  IN <<Len(missing) = 0, missing>>

\* data_loader.validate_results_structure: the loop appends, in the order of
\* `required`, each req whose path does not exist.
validate_results_structure(fs, results_root) ==
  LET missing == SelectSeq(required, LAMBDA req : ~exists(fs, Join(results_root, req)))
  IN <<Len(missing) = 0, missing>>

\* ------------------------------------------------------------------- loader
\* `except Exception: return None` left out: the reader's exception leaves
\* the loader.
except_return_None_missing(r, results_root) ==
  IF r.exc = "none" THEN Return(r.ret, results_root) ELSE Raise(r.exc, results_root)

\* try: return <read> / except Exception: return None
except_return_None(r, results_root) ==
  IF r.exc = "none" THEN Return(r.ret, results_root) ELSE Return(None, results_root)

\* data_loader.load_index_csv: None when the file is absent or unreadable.
\* The case_id column of the files the model draws is text already.
load_index_csv(fs, results_root) ==
  LET index_path == Join(results_root, index_csv) IN
    IF ~exists(fs, index_path) THEN Return(None, results_root)
    ELSE except_return_None(read_csv(fs, index_path), results_root)

\* data_loader.load_case_mapping
load_case_mapping(fs, results_root) ==
  LET mapping_path == Join(results_root, case_mapping_csv) IN
    IF ~exists(fs, mapping_path) THEN Return(None, results_root)
    ELSE except_return_None(read_csv(fs, mapping_path), results_root)

\* data_loader.load_metrics_summary
load_metrics_summary(fs, results_root) ==
  LET metrics_path == Join(results_root, patient_metrics_summary_csv) IN
    IF ~exists(fs, metrics_path) THEN Return(None, results_root)
    ELSE except_return_None(read_csv(fs, metrics_path), results_root)

\* data_loader.load_run_config
load_run_config(fs, results_root) ==
  LET config_path == Join(results_root, run_config_json) IN
    IF ~exists(fs, config_path) THEN Return(None, results_root)
    ELSE except_return_None(json_load(fs, config_path), results_root)

\* The image path of a case given without looking for the file.
image_path_unchecked(fs, results_root, case_id) ==
  Some(Join(results_root, explainability_reports \o <<png_of(case_id)>>))

\* data_loader.get_explainability_image_path: the path when the file exists.
get_explainability_image_path(fs, results_root, case_id) ==
  LET image_path == Join(results_root, explainability_reports \o <<png_of(case_id)>>) IN
    IF exists(fs, image_path) THEN Some(image_path) ELSE None

\* data_loader.check_artifacts: a flag per artifact, and the number of
\* Case-*.png files in explainability_reports.
check_artifacts(fs, results_root) ==
  LET explain_dir == Join(results_root, explainability_reports)
      case_images == IF exists(fs, explain_dir)
                     THEN glob(fs, explain_dir, "Case-*.png") ELSE {}
  IN [index_csv |-> exists(fs, Join(results_root, index_csv)),
      case_mapping |-> exists(fs, Join(results_root, case_mapping_csv)),
      metrics_summary |-> exists(fs, Join(results_root, patient_metrics_summary_csv)),
      run_config |-> exists(fs, Join(results_root, run_config_json)),
      calibration_plots |-> /\ exists(fs, Join(results_root, calibration_plots))
                            /\ Cardinality(glob(fs, Join(results_root, calibration_plots), "*.png")) > 0,
      roc_curves |-> exists(fs, Join(results_root, roc_curves_png)),
      pr_curves |-> exists(fs, Join(results_root, pr_curves_png)),
      confusion_matrix |-> exists(fs, Join(results_root, confusion_matrices_png)),
      case_images |-> Cardinality(case_images) > 0,
      case_image_count |-> Cardinality(case_images)]

\* `p < 0.3` and the like written `p <= 0.3`.
risk_band_of_le(p) ==
  IF p <= 30 THEN "LOW"
  ELSE IF p <= 50 THEN "LOW-MOD"
  ELSE IF p <= 75 THEN "MODERATE"
  ELSE "HIGH"

\* The band generate_demo_data gives a probability.
risk_band_of(p) ==
  IF p < 30 THEN "LOW"
  ELSE IF p < 50 THEN "LOW-MOD"
  ELSE IF p < 75 THEN "MODERATE"
  ELSE "HIGH"

\* ui.render_risk_gauge: the ranges of the gauge's four coloured steps, from
\* green to red.
gauge_steps == << <<0, 30>>, <<30, 50>>, <<50, 75>>, <<75, 100>> >>

n_cases == 25

\* Draws of the kind the generator makes: a fold of [0, 1, 2], a class, a
\* beta-distributed probability, an uncertainty in [0.02, 0.15).
DrawValues ==
  << [fold |-> 0, y_true |-> 1, p_calibrated |-> 12, uncertainty_std |-> 3],
     [fold |-> 1, y_true |-> 1, p_calibrated |-> 30, uncertainty_std |-> 8],
     [fold |-> 2, y_true |-> 0, p_calibrated |-> 50, uncertainty_std |-> 14],
     [fold |-> 0, y_true |-> 1, p_calibrated |-> 75, uncertainty_std |-> 5] >>

\* The states of numpy's global generator, and the draws it yields for the
\* rows of a table from state k.
RngStates == 1..Len(DrawValues)
DrawStream(k) == [i \in 1..n_cases |-> DrawValues[((i + k) % Len(DrawValues)) + 1]]

\* The generator's state after n rows drawn: np.random.random() and the like
\* move it on.
advance(k, n) == ((k - 1 + n) % Len(DrawValues)) + 1

\* The seed call left out: the generator stays where it was.
np_random_seed_missing(state, seed) == state

\* np.random.seed(seed): the state is a function of the seed alone.
np_random_seed(state, seed) == ((seed - 1) % Len(DrawValues)) + 1

\* data_loader.generate_demo_data: seeds the generator, then draws n_cases
\* rows, Case-01 onwards, the band of each derived from its probability.
\* Gives the table and the state it leaves the generator in.
generate_demo_data(state) ==
  LET seeded == np_random_seed(state, 42)
      draws == DrawStream(seeded)
  IN [df |-> [i \in 1..n_cases |->
                [case_id |-> i, fold |-> draws[i].fold, y_true |-> draws[i].y_true,
                 p_calibrated |-> draws[i].p_calibrated,
                 uncertainty_std |-> draws[i].uncertainty_std,
                 risk_band |-> risk_band_of(draws[i].p_calibrated)]],
      rng |-> advance(seeded, n_cases)]

\* The demo branch with its flags taken from the root by check_artifacts.
demo_bundle_checked(fs, state, results_root) ==
  LET demo == generate_demo_data(state) IN
    Return([index_df |-> Some(demo.df), case_mapping |-> None,
            metrics_summary |-> None, run_config |-> None,
            artifacts |-> check_artifacts(fs, results_root), is_demo |-> TRUE], demo.rng)

\* The demo branch of load_all_data: the synthetic index, nothing else
\* loaded, the flags written out.
demo_bundle(fs, state, results_root) ==
  LET demo == generate_demo_data(state) IN
    Return([index_df |-> Some(demo.df), case_mapping |-> None,
            metrics_summary |-> None, run_config |-> None,
            artifacts |-> [index_csv |-> TRUE, case_mapping |-> TRUE,
                           case_images |-> FALSE, case_image_count |-> 0,
                           metrics_summary |-> FALSE, run_config |-> FALSE,
                           calibration_plots |-> FALSE, roc_curves |-> FALSE,
                           pr_curves |-> FALSE, confusion_matrix |-> FALSE],
            is_demo |-> TRUE], demo.rng)

\* data_loader.load_all_data.  The call's result carries the bundle and, as
\* its argument after the call, the state of the global generator.
load_all_data(fs, state, results_root, demo_mode) ==
  IF demo_mode
  THEN demo_bundle(fs, state, results_root)
  ELSE LET index_df == load_index_csv(fs, results_root)
           case_mapping == load_case_mapping(fs, results_root)
           metrics_summary == load_metrics_summary(fs, results_root)
           run_config == load_run_config(fs, results_root)
           artifacts == check_artifacts(fs, results_root)
       IN IF index_df.exc # "none" THEN Raise(index_df.exc, state)
          ELSE IF case_mapping.exc # "none" THEN Raise(case_mapping.exc, state)
          ELSE IF metrics_summary.exc # "none" THEN Raise(metrics_summary.exc, state)
          ELSE IF run_config.exc # "none" THEN Raise(run_config.exc, state)
          ELSE Return([index_df |-> index_df.ret,
                       case_mapping |-> case_mapping.ret,
                       metrics_summary |-> metrics_summary.ret,
                       run_config |-> run_config.ret,
                       artifacts |-> artifacts,
                       is_demo |-> FALSE], state)

\* The cache keyed by the root alone.
cache_key_root(results_root, demo_mode) == <<results_root, FALSE>>

\* st.cache_data's key for cached_load_data: its arguments.
cache_key(results_root, demo_mode) == <<results_root, demo_mode>>

\* app.cached_load_data under st.cache_data: on a hit the entry of the key (a
\* copy of it), load_all_data not run; on a miss the load, whose result
\* becomes the entry unless it raised.  `loads` lists the keys load_all_data
\* ran for.
cached_load_data(entries, fs, state, results_root, demo_mode) ==
  LET key == cache_key(results_root, demo_mode) IN
    IF key \in DOMAIN entries
    THEN [call |-> Return(entries[key], state), entries |-> entries, loads |-> <<>>]
    ELSE LET call == load_all_data(fs, state, results_root, demo_mode) IN
           [call |-> call,
            entries |-> IF call.exc # "none" THEN entries
                        ELSE [k \in DOMAIN entries \cup {key} |->
                                IF k = key THEN call.ret ELSE entries[k]],
            loads |-> <<<<results_root, demo_mode>>>>]

\* ---------------------------------------------------- Streamlit's script run
\* st.session_state[key] = value
setitem(d, key, value) == [k \in DOMAIN d \cup {key} |-> IF k = key THEN value ELSE d[k]]

\* The context of a script run: st.session_state; the keyed widgets the run
\* before registered (`old`) and those this run has registered so far (`ids`),
\* each with the parameters it was called with; the identity rule of the
\* Streamlit build (`keyed`: a keyed widget is the same widget whatever its
\* default, as against one whose default is part of its identity) and what
\* the build's selectbox does with a state that is not one of its options
\* (`unlisted`); whether st.rerun() has ended the run; the exception that has
\* ended it.
Context(ss, rt) ==
  [ss |-> ss, old |-> rt.ids, ids |-> <<>>, keyed |-> rt.keyed, unlisted |-> rt.unlisted,
   rerun |-> FALSE, exc |-> "none"]

\* The builds of Streamlit the viewer runs on.  Releases up to 1.44 make the
\* default part of a keyed widget's identity and send a selectbox's state to
\* the browser as its index in the options: a state that is no option is a
\* ValueError.  Later releases send the state as text, and from 1.50 on
\* identify a keyed widget by its key and options: a state that is no option
\* is returned as it is, or replaced by the default where the release checks
\* it against the options.
IndexedBuild == [keyed |-> FALSE, unlisted |-> "ValueError"]
KeyedBuild == [keyed |-> TRUE, unlisted |-> "kept"]
CheckedBuild == [keyed |-> TRUE, unlisted |-> "default"]
Builds == {IndexedBuild, KeyedBuild, CheckedBuild}

\* The run goes on: no st.rerun() and no exception so far.
Running(ctx) == ~ctx.rerun /\ ctx.exc = "none"

\* A call of a widget with key=...: its value is the state under its key when
\* the run before registered the same widget (the same options or bounds and,
\* where the build makes the default part of a widget's identity, the same
\* default) or when the key was set through st.session_state with no widget
\* registered, and the state is a value the widget can take; else the
\* default, as for a new widget.  The value is st.session_state[key];
\* `valid` says that the state under the key is a value the widget can take.
widget(ctx, key, bounds, default, valid) ==
  LET kept == /\ key \in DOMAIN ctx.ss
              /\ valid
              /\ \/ key \notin DOMAIN ctx.old
                 \/ /\ ctx.old[key].bounds = bounds
                    /\ ctx.keyed \/ ctx.old[key].default = default
      value == IF kept THEN ctx.ss[key] ELSE default
  IN [ctx EXCEPT !.ss = setitem(@, key, value),
                 !.ids = setitem(@, key, [bounds |-> bounds, default |-> default])]

\* st.multiselect(options=, default=, key=): a default outside the options
\* is an exception.
multiselect(ctx, key, options, default) ==
  IF ~(default \subseteq options) THEN [ctx EXCEPT !.exc = "StreamlitAPIException"]
  ELSE widget(ctx, key, options, default, ctx.ss[key] \subseteq options)

\* st.slider(min_value=, max_value=, value=(lo, hi), key=): the bounds are
\* widened to hold the value passed.
slider(ctx, key, min_value, max_value, value) ==
  LET lo == IF value[1] < min_value THEN value[1] ELSE min_value
      hi == IF value[2] > max_value THEN value[2] ELSE max_value
  IN widget(ctx, key, <<lo, hi>>, value,
            /\ lo <= ctx.ss[key][1]
            /\ ctx.ss[key][1] <= ctx.ss[key][2]
            /\ ctx.ss[key][2] <= hi)

\* st.selectbox(options=, index=, key=), options a non-empty list.  A state
\* set through st.session_state before the widget is registered is the
\* widget's value; when it is none of the options, the build decides.
selectbox(ctx, key, options, index) ==
  IF /\ key \in DOMAIN ctx.ss
     /\ key \notin DOMAIN ctx.old
     /\ ctx.ss[key] \notin Range(options)
     /\ ctx.unlisted # "default"
  THEN IF ctx.unlisted = "ValueError" THEN [ctx EXCEPT !.exc = "ValueError"]
       ELSE [ctx EXCEPT !.ids = setitem(@, key, [bounds |-> options,
                                                 default |-> options[index + 1]])]
  ELSE widget(ctx, key, options, options[index + 1], ctx.ss[key] \in Range(options))

\* st.text_input(label, key=)
text_input(ctx, key) == widget(ctx, key, <<>>, "", TRUE)

\* st.button(label, key=): registered, and true in the run its click starts.
button(ctx, key) == [ctx EXCEPT !.ids = setitem(@, key, [bounds |-> <<>>, default |-> FALSE])]

\* st.rerun(): the run ends here and the script runs again.
st_rerun(ctx) == [ctx EXCEPT !.rerun = TRUE]

\* The end of a run: the state of a widget the run did not call is dropped
\* from st.session_state; what was set through st.session_state stays.
on_script_finished(ctx) ==
  [k \in DOMAIN ctx.ss \ (DOMAIN ctx.old \ DOMAIN ctx.ids) |-> ctx.ss[k]]

\* ------------------------------------------------------ the filter bar, run
\* `index_df is None or index_df.empty`
NoData(index_df) == IsNone(index_df) \/ Len(Val(index_df)) = 0

\* `if key not in st.session_state: st.session_state[key] = value`
setdefault(ss, key, value) == IF key \in DOMAIN ss THEN ss ELSE setitem(ss, key, value)

\* ui.render_global_filter_bar, "Initialize session state for filters".
initialize_filters(ctx, key_prefix, rows) ==
  [ctx EXCEPT !.ss =
     setdefault(setdefault(setdefault(setdefault(setdefault(@,
       key_prefix \o "_risk_bands", {}),
       key_prefix \o "_y_true", {}),
       key_prefix \o "_folds", {}),
       key_prefix \o "_prob_range", <<0, 100>>),
       key_prefix \o "_uncert_range", <<0, uncert_max_of(rows)>>)]

\* A multiselect of the bar called with default=[] whatever the view's state.
filter_multiselect_fresh(ctx, key, state_key, options) ==
  IF ~Running(ctx) THEN ctx
  ELSE LET called == multiselect(ctx, key, options, {}) IN
         IF called.exc # "none" THEN called
         ELSE [called EXCEPT !.ss = setitem(@, state_key, @[key])]

\* A multiselect of the bar: its default is the view's filter state under
\* state_key, and its value is written back there.
filter_multiselect(ctx, key, state_key, options) ==
  IF ~Running(ctx) THEN ctx
  ELSE LET called == multiselect(ctx, key, options, ctx.ss[state_key]) IN
         IF called.exc # "none" THEN called
         ELSE [called EXCEPT !.ss = setitem(@, state_key, @[key])]

\* A slider of the bar, likewise.
filter_slider(ctx, key, state_key, max_value) ==
  IF ~Running(ctx) THEN ctx
  ELSE LET called == slider(ctx, key, 0, max_value, ctx.ss[state_key]) IN
         [called EXCEPT !.ss = setitem(@, state_key, @[key])]

\* The Reset Filters button: pressed, it writes the no-constraint state over
\* the view's filter state and calls st.rerun().
reset_button(ctx, key_prefix, rows, click) ==
  IF ~Running(ctx) THEN ctx
  ELSE IF click # key_prefix \o "_reset" THEN button(ctx, key_prefix \o "_reset")
  ELSE st_rerun([button(ctx, key_prefix \o "_reset") EXCEPT !.ss =
         setitem(setitem(setitem(setitem(setitem(@,
           key_prefix \o "_risk_bands", {}),
           key_prefix \o "_y_true", {}),
           key_prefix \o "_folds", {}),
           key_prefix \o "_prob_range", <<0, 100>>),
           key_prefix \o "_uncert_range", <<0, uncert_max_of(rows)>>)])

\* The dict the bar returns: the view's filter state, with the defaults of
\* its .get calls.
filters_of(ss, key_prefix) ==
  [risk_bands |-> Get(ss, key_prefix \o "_risk_bands", {}),
   y_true |-> Get(ss, key_prefix \o "_y_true", {}),
   folds |-> Get(ss, key_prefix \o "_folds", {}),
   prob_range |-> Get(ss, key_prefix \o "_prob_range", <<0, 100>>),
   uncert_range |-> Get(ss, key_prefix \o "_uncert_range", <<0, 100>>)]

\* ui.render_global_filter_bar(index_df, key_prefix) in a run: {} without
\* data; else the five widgets in the order of the source, each initialised
\* from and written back to the view's filter state, then the reset button.
\* Gives the context as the bar leaves it; the dict returned is filters_of.
global_filter_bar(ctx, index_df, key_prefix, click) ==
  IF NoData(index_df) THEN ctx
  ELSE reset_button(
         filter_slider(
           filter_slider(
             filter_multiselect(
               filter_multiselect(
                 filter_multiselect(
                   initialize_filters(ctx, key_prefix, Val(index_df)),
                   key_prefix \o "_risk_select", key_prefix \o "_risk_bands",
                   unique(Val(index_df), "risk_band")),
                 key_prefix \o "_class_select", key_prefix \o "_y_true", {0, 1}),
               key_prefix \o "_fold_select", key_prefix \o "_folds",
               unique(Val(index_df), "fold")),
             key_prefix \o "_prob_slider", key_prefix \o "_prob_range", 100),
           key_prefix \o "_uncert_slider", key_prefix \o "_uncert_range",
           uncert_max_of(Val(index_df))),
         key_prefix, Val(index_df), click)

\* ------------------------------------------------------------------ the run
\* The radio's options, as routed (the emoji prefix split off).
Pages == {"Dashboard", "Case Explorer", "Performance & Run Info"}

\* app.get_folder_name: the last component, never the path.
get_folder_name(results_root) ==
  IF Len(results_root) > 1 THEN Some(results_root[Len(results_root)]) ELSE None

\* ui.render_connection_status: what the sidebar shows.
render_connection_status(connected, folder_name) ==
  IF connected THEN [connected |-> TRUE, folder |-> folder_name]
  ELSE [connected |-> FALSE, folder |-> None]

\* app.sidebar_setup: the root, the demo flag and the page of the widgets, the
\* result of the validate call (None in demo mode), the connection status and
\* the "Missing N required file(s)" warning it renders.
sidebar_setup(fs, w) ==
  LET results_root == Resolve(w.results_path)
      demo_mode == w.demo_mode
      v == IF ~demo_mode THEN Some(validate_results_structure(fs, results_root)) ELSE None
      is_valid == Val(v)[1]
      missing == Val(v)[2]
  IN [results_root |-> results_root,
      demo_mode |-> demo_mode,
      page |-> w.page,
      validation |-> v,
      connection |-> IF ~demo_mode
                     THEN IF is_valid
                          THEN render_connection_status(TRUE, get_folder_name(results_root))
                          ELSE render_connection_status(FALSE, None)
                     ELSE render_connection_status(TRUE, Some("DEMO")),
      warning |-> IF ~demo_mode /\ ~is_valid /\ Len(missing) > 0
                  THEN Some(Len(missing)) ELSE None]

\* The card from the counts on: the percentage of HIGH cases.
status_card_of(n_cases_loaded, n_high_risk) ==
  [n_cases |-> n_cases_loaded,
   n_high_risk |-> n_high_risk,
   pct_high |-> IF n_cases_loaded > 0 THEN (n_high_risk * 10000) \div n_cases_loaded ELSE 0]

\* ui.render_sidebar_status_card: nothing without data, else the number of
\* cases loaded, of HIGH cases among them, and their percentage.
render_sidebar_status_card(data) ==
  IF NoData(data.index_df) THEN None
  ELSE Some(status_card_of(Len(Val(data.index_df)),
                           Len(SelectSeq(Val(data.index_df),
                                         LAMBDA r : r.risk_band = "HIGH"))))

\* What a page renders in the main area.  kind: the "No data available"
\* warning, the page's content, "rerun" when st.rerun() ended the run, or
\* "exception"; total: the N of "Showing n of N cases"; cases: the table of
\* the view; the explorer's search term, selected case and detail card.
PageBody(kind) ==
  [kind |-> kind, demo_banner |-> FALSE, cases |-> <<>>, metrics |-> None, total |-> 0,
   search |-> "", selected |-> None, detail |-> None]

NoDataWarning == PageBody("no data")

\* What is on the screen of a run that st.rerun() or an exception ended.
Cut(ctx, data) ==
  [body |-> PageBody(IF ctx.rerun THEN "rerun" ELSE "exception"), data |-> data, ctx |-> ctx]

\* app.page_dashboard, under a top table with rows: the "View Case" selectbox
\* over the table's case ids and the "View in Case Explorer" button, which
\* sets case_selector to the case picked and page_switch, and reruns.
view_case_button(ctx, top, view_key, goto_key, click) ==
  IF ~Running(ctx) \/ Len(top) = 0 THEN ctx
  ELSE IF click # goto_key
       THEN button(selectbox(ctx, view_key, [k \in 1..Len(top) |-> top[k].case_id], 0), goto_key)
       ELSE st_rerun([button(selectbox(ctx, view_key, [k \in 1..Len(top) |-> top[k].case_id], 0),
                             goto_key)
                      EXCEPT !.ss = setitem(setitem(@, "case_selector", @[view_key]),
                                            "page_switch", "Case Explorer")])

\* app.page_dashboard from the filtered view on: the count line, the
\* metrics, the two top tables, each with its button.
dashboard_view(ctx, data, r, metrics, click) ==
  [body |-> [PageBody("dashboard") EXCEPT !.demo_banner = data.is_demo,
                                          !.cases = Val(r.ret),
                                          !.metrics = Some(metrics),
                                          !.total = Len(Val(data.index_df))],
   data |-> [data EXCEPT !.index_df = r.arg],
   ctx |-> view_case_button(
             view_case_button(ctx, metrics.top_high, "view_high", "goto_high", click),
             metrics.top_uncert, "view_uncert", "goto_uncert", click)]

\* The page once the button of a top table has called st.rerun().
dashboard_rendered(page) == IF Running(page.ctx) THEN page ELSE Cut(page.ctx, page.data)

\* app.page_dashboard below the filter bar.
dashboard_filtered(ctx, data, r, click) ==
  dashboard_rendered(
    dashboard_view(ctx, data, r, key_metrics(Val(r.ret), data.artifacts), click))

\* app.page_dashboard: the demo banner, then the warning or, below the filter
\* bar, the dashboard of the filtered view of index_df.  Gives what it
\* renders, the bundle as it leaves it and the context of the run.
dashboard_barred(ctx, data, click) ==
  IF ~Running(ctx) THEN Cut(ctx, data)
  ELSE dashboard_filtered(ctx, data,
                          apply_global_filters(data.index_df, filters_of(ctx.ss, "dashboard")),
                          click)

page_dashboard(ctx, data, click) ==
  IF NoData(data.index_df)
  THEN [body |-> [NoDataWarning EXCEPT !.demo_banner = data.is_demo], data |-> data, ctx |-> ctx]
  ELSE dashboard_barred(global_filter_bar(ctx, data.index_df, "dashboard", click), data, click)

\* display_df of page_case_explorer: a copy of the filtered view's display
\* columns, the class as 'Healthy' or 'MASLD' (round(3) leaves a value in
\* hundredths as it is).
format_for_display(filtered_df) ==
  [i \in 1..Len(filtered_df) |->
     [case_id |-> filtered_df[i].case_id, risk_band |-> filtered_df[i].risk_band,
      p_calibrated |-> filtered_df[i].p_calibrated,
      uncertainty_std |-> filtered_df[i].uncertainty_std,
      Class |-> IF filtered_df[i].y_true = 0 THEN "Healthy" ELSE "MASLD"]]

\* The search terms the model types: none, a case identifier, and a prefix
\* in lower case.
SearchTerms == {"", case_id_text(2), "case-"}

\* Series.str.contains(pat, case=False) on a case identifier's text, for the
\* terms of SearchTerms.
str_contains(text, pat) == pat = "case-" \/ pat = text

\* sorted(values): the list of a set of case identifiers in ascending order.
RECURSIVE sorted(_)
sorted(S) == IF S = {} THEN <<>> ELSE sorted(S \ {Max(S)}) \o <<Max(S)>>

\* list.index(x)
list_index(l, x) == (CHOOSE i \in 1..Len(l) : l[i] = x) - 1

\* app.page_case_explorer, "Case selection" with cases to select from:
\* case_selector set to the first case when absent, then the selectbox at the
\* index of st.session_state.case_selector, or 0 when it is not a case of
\* the list.
case_selectbox(ctx, case_ids) ==
  selectbox([ctx EXCEPT !.ss = setdefault(@, "case_selector", case_ids[1])],
            "case_selector", case_ids,
            IF Get(ctx.ss, "case_selector", case_ids[1]) \in Range(case_ids)
            THEN list_index(case_ids, Get(ctx.ss, "case_selector", case_ids[1]))
            ELSE 0)

\* app.page_case_explorer, the right column: the detail card of the selected
\* case, its row looked up in the view (.iloc[0] of no row is an IndexError)
\* and its image by get_explainability_image_path.
case_detail(fs, results_root, view, selected_case) ==
  LET found == SelectSeq(view, LAMBDA row : row.case_id = selected_case) IN
    IF Len(found) = 0 THEN Raise("IndexError", selected_case)
    ELSE Return(Some([case_data |-> found[1],
                      image_path |-> get_explainability_image_path(fs, results_root,
                                                                   selected_case)]),
                selected_case)

\* The explorer's two columns over the searched view, with the case selected.
explorer_columns(fs, results_root, ctx, data, r, view, detail) ==
  IF detail.exc # "none" THEN Cut([ctx EXCEPT !.exc = detail.exc], data)
  ELSE [body |-> [PageBody("case explorer") EXCEPT
                    !.cases = format_for_display(view),
                    !.total = Len(Val(data.index_df)),
                    !.search = ctx.ss["case_search"],
                    !.selected = IF Len(view) = 0 THEN None ELSE Some(ctx.ss["case_selector"]),
                    !.detail = detail.ret],
        data |-> [data EXCEPT !.index_df = r.arg],
        ctx |-> ctx]

\* The explorer from the searched view on: no case selected when the view
\* has no case ("No cases match filters"), else the selectbox over its sorted
\* case ids and the detail of the case selected.
explorer_selected(fs, results_root, ctx, data, r, view) ==
  IF ~Running(ctx) THEN Cut(ctx, data)
  ELSE explorer_columns(fs, results_root, ctx, data, r, view,
                        IF Len(view) = 0 THEN Return(None, None)
                        ELSE case_detail(fs, results_root, view, ctx.ss["case_selector"]))

explorer_searched(fs, results_root, ctx, data, r, view) ==
  explorer_selected(fs, results_root,
                    IF Len(view) = 0 THEN ctx
                    ELSE case_selectbox(ctx, sorted(unique(view, "case_id"))),
                    data, r, view)

\* The explorer from the filtered view on: the search box, and the view
\* narrowed to the case ids that hold the term when there is one.
explorer_filtered(fs, results_root, ctx, data, r) ==
  explorer_searched(fs, results_root, ctx, data, r,
                    IF ctx.ss["case_search"] = "" THEN Val(r.ret)
                    ELSE SelectSeq(Val(r.ret),
                                   LAMBDA row : str_contains(case_id_text(row.case_id),
                                                             ctx.ss["case_search"])))

explorer_barred(fs, results_root, ctx, data, click) ==
  IF ~Running(ctx) THEN Cut(ctx, data)
  ELSE explorer_filtered(fs, results_root, text_input(ctx, "case_search"), data,
                         apply_global_filters(data.index_df, filters_of(ctx.ss, "explorer")))

\* app.page_case_explorer: the warning or, below the filter bar, the case list
\* of the filtered and searched view and the detail of the selected case.
page_case_explorer(fs, results_root, ctx, data, click) ==
  IF NoData(data.index_df) THEN [body |-> NoDataWarning, data |-> data, ctx |-> ctx]
  ELSE explorer_barred(fs, results_root,
                       global_filter_bar(ctx, data.index_df, "explorer", click), data, click)

\* app.page_performance: the tabs of metrics, calibration and artifacts.
page_performance(ctx, data) ==
  [body |-> PageBody("performance"), data |-> data, ctx |-> ctx]

\* del st.session_state.page_switch
del(d, key) == [k \in DOMAIN d \ {key} |-> d[k]]

\* Streamlit's script runner between runs: the rules of the build, the
\* keyed widgets the last run registered, and whether the last run ended in
\* st.rerun().
Runtime(build, ids, rerun) ==
  [keyed |-> build.keyed, unlisted |-> build.unlisted, ids |-> ids, rerun |-> rerun]

\* app.main, "Handle page switching from buttons": the signal is deleted.
handle_page_switch(ss) == IF "page_switch" \in DOMAIN ss THEN del(ss, "page_switch") ELSE ss

\* app.main, "Route to page".
route(fs, results_root, page, ctx, data, click) ==
  IF page = "Dashboard" THEN page_dashboard(ctx, data, click)
  ELSE IF page = "Case Explorer" THEN page_case_explorer(fs, results_root, ctx, data, click)
  ELSE page_performance(ctx, data)

\* What a run of main leaves behind, given its sidebar, the page it routed
\* to, its load and what the page rendered.
run_of(sb, page, cached, rt, rendered) ==
  [session_state |-> on_script_finished(rendered.ctx),
   runtime |-> Runtime(rt, rendered.ctx.ids, rendered.ctx.rerun),
   cache |-> cached.entries,
   rng |-> cached.call.arg,
   loads |-> cached.loads,
   bundle |-> IF cached.call.exc # "none" THEN None ELSE Some(rendered.data),
   validated |-> sb.validation,
   screen |-> [results_root |-> sb.results_root,
               demo_mode |-> sb.demo_mode,
               connection |-> sb.connection,
               warning |-> sb.warning,
               status_card |-> IF cached.call.exc # "none" THEN None
                               ELSE render_sidebar_status_card(cached.call.ret),
               nav |-> sb.page,
               page |-> page,
               body |-> rendered.body]]

\* main from the load on: an exception of the load ends the run, and
\* Streamlit shows it in place of the page.
loaded_run(fs, sb, page, ss, cached, rt, click) ==
  run_of(sb, page, cached, rt,
         IF cached.call.exc # "none"
         THEN Cut([Context(ss, rt) EXCEPT !.exc = cached.call.exc], None)
         ELSE route(fs, sb.results_root, page, Context(ss, rt), cached.call.ret, click))

\* main from the sidebar on: the page of page_switch when the signal is set,
\* else the page of the navigation radio; then the cached load.
sidebar_run(fs, state, sb, ss, entries, rt, click) ==
  loaded_run(fs, sb,
             IF "page_switch" \in DOMAIN ss THEN ss["page_switch"] ELSE sb.page,
             handle_page_switch(ss),
             cached_load_data(entries, fs, state, sb.results_root, sb.demo_mode),
             rt, click)

\* app.main, one run of the script: the sidebar, the page_switch signal, the
\* cached load, the status card and the routed page.  `click` is the key of
\* the button whose press started the run, or "none".
main(fs, state, w, ss, entries, rt, click) ==
  sidebar_run(fs, state, sidebar_setup(fs, w), ss, entries, rt, click)

\* Nothing rendered yet.
Blank ==
  [results_root |-> <<>>, demo_mode |-> FALSE,
   connection |-> [connected |-> FALSE, folder |-> None], warning |-> None,
   status_card |-> None, nav |-> "none", page |-> "none",
   body |-> PageBody("none")]

\* The case indexes the files of the model hold: the header alone, or one case.
IndexTables == {d \in DataFrames : Len(d) <= 1}

\* What a results root holds: each data file absent, unparseable or parsed;
\* the case images by number; the calibration_plots directory absent, empty
\* or with a plot; the plots at the root by name.
Holds(ix, mp, ms, rc, im, cal, pl) ==
  [index |-> ix, mapping |-> mp, metrics |-> ms, config |-> rc,
   images |-> im, calibration |-> cal, plots |-> pl]

\* The roots of the viewer's runs: the two required files, nothing else.
RootFiles ==
  { Holds(ix, mp, None, None, {}, "absent", {}) :
      ix \in {None} \cup {Some(Malformed)} \cup {Some(Table(d)) : d \in IndexTables},
      mp \in {None, Some(Malformed), Some(Table(<<>>))} }

\* What the other folder a user types holds: nothing, an unparseable index
\* alone, or both required files with one case.
ArchiveFiles ==
  { Holds(None, None, None, None, {}, "absent", {}),
    Holds(Some(Malformed), None, None, None, {}, "absent", {}) } \cup
  { Holds(Some(Table(d)), Some(Table(<<>>)), None, None, {}, "absent", {}) :
      d \in {x \in IndexTables : unique(x, "risk_band") = {"HIGH"}} }

\* The paths under root r that exist when it holds h, directories included.
PathsOf(r, h) ==
  (IF IsNone(h.index) THEN {} ELSE {Join(r, index_csv)}) \cup
  (IF IsNone(h.mapping) THEN {} ELSE {Join(r, case_mapping_csv)}) \cup
  (IF IsNone(h.metrics) THEN {} ELSE {Join(r, patient_metrics_summary_csv)}) \cup
  (IF IsNone(h.config) THEN {} ELSE {Join(r, run_config_json)}) \cup
  {Join(r, explainability_reports \o <<png_of(i)>>) : i \in h.images} \cup
  (IF IsNone(h.index) /\ IsNone(h.mapping) /\ h.images = {}
   THEN {} ELSE {Join(r, explainability_reports)}) \cup
  (IF h.calibration = "absent" THEN {} ELSE {Join(r, calibration_plots)}) \cup
  (IF h.calibration = "plots" THEN {Join(r, calibration_plots \o <<calibration_png>>)} ELSE {}) \cup
  {Join(r, pl) : pl \in h.plots}

\* What the data file at path p holds.
ContentOf(holds, p) ==
  LET r == CHOOSE x \in Roots : SubSeq(p, 1, Len(x)) = x IN
    IF p = Join(r, index_csv) THEN Val(holds[r].index)
    ELSE IF p = Join(r, case_mapping_csv) THEN Val(holds[r].mapping)
    ELSE IF p = Join(r, patient_metrics_summary_csv) THEN Val(holds[r].metrics)
    ELSE Val(holds[r].config)

\* The filesystem in which each root holds what `holds` gives it.
FileSystem(holds) ==
  [files |-> UNION {PathsOf(r, holds[r]) : r \in Roots},
   contents |-> [p \in UNION { {Join(r, f) : f \in {index_csv, case_mapping_csv,
                                                      patient_metrics_summary_csv, run_config_json}}
                               \cap PathsOf(r, holds[r]) : r \in Roots } |->
                   ContentOf(holds, p)]]

\* ------------------------------------------------- utils, the second module
\* utils.validate_results_structure: its own list of the two required files;
\* the loop appends each req whose path does not exist.
utils_validate_results_structure(fs, results_root) ==
  LET utils_required == <<index_csv, case_mapping_csv>>
      missing == SelectSeq(utils_required, LAMBDA req : ~exists(fs, Join(results_root, req)))
  IN <<Len(missing) = 0, missing>>

\* The uniform number (in hundredths) behind the class of each draw of
\* DrawValues, and np.random.choice([0, 1], p=[q, 1 - q]) on it: class 0
\* where the number is below q.
ClassDraws == <<40, 88, 12, 63>>
choice_class(k, q) == IF ClassDraws[k] < q THEN 0 ELSE 1

\* np.random.random() in state k.
random(k) == <<37, 81, 5, 64>>[k]

\* np.random.beta(a, b) on draw k: beta(3, 4) as in DrawValues, beta(2, 5)
\* skewed low, beta(5, 2) skewed high.
beta(a, b, k) ==
  IF <<a, b>> = <<3, 4>> THEN DrawValues[k].p_calibrated
  ELSE IF a < b THEN <<8, 22, 31, 58>>[k]
  ELSE <<55, 62, 80, 93>>[k]

\* The if/elif chain over p with the three thresholds t.
risk_band_under(t, p) ==
  IF p < t[1] THEN "LOW"
  ELSE IF p < t[2] THEN "LOW-MOD"
  ELSE IF p < t[3] THEN "MODERATE"
  ELSE "HIGH"

\* The band utils.generate_demo_data gives a probability.
utils_risk_band_of(p) == risk_band_under(<<30, 60, 80>>, p)

utils_n_cases == 20

\* How utils.generate_demo_data draws p_calibrated: np.random.random()
\* drawn first, beta(2, 5) where it is above 0.5 and beta(5, 2) otherwise.
utils_p_draw == [coin |-> TRUE, first |-> <<2, 5>>, second |-> <<5, 2>>]

\* How data_loader.generate_demo_data draws it: beta(3, 4), no draw before.
loader_p_draw == [coin |-> FALSE, first |-> <<3, 4>>, second |-> <<3, 4>>]

\* The body of utils.generate_demo_data with its constants as parameters: n
\* rows, class 0 with probability q, the thresholds t, p_calibrated drawn as
\* p_draw says.  The generator is seeded with 42; the draw of the coin, made
\* between the class column and the probability column, moves the columns
\* after it one draw on.
utils_demo_data(n, q, t, p_draw, state) ==
  LET seeded == np_random_seed(state, 42)
      shift == IF p_draw.coin THEN 1 ELSE 0
      at(i) == ((i + seeded) % Len(DrawValues)) + 1
      after(i) == ((i + seeded + shift) % Len(DrawValues)) + 1
      ab == IF p_draw.coin /\ ~(random(seeded) > 50) THEN p_draw.second ELSE p_draw.first
      p(i) == beta(ab[1], ab[2], after(i))
  IN [df |-> [i \in 1..n |->
                [case_id |-> i, fold |-> DrawValues[at(i)].fold,
                 y_true |-> choice_class(at(i), q),
                 p_calibrated |-> p(i),
                 uncertainty_std |-> DrawValues[after(i)].uncertainty_std,
                 risk_band |-> risk_band_under(t, p(i))]],
      rng |-> advance(seeded, n + shift)]

\* utils.generate_demo_data: 20 rows, class 0 with probability 0.1, the
\* thresholds 0.3, 0.6 and 0.8.
utils_generate_demo_data(state) ==
  utils_demo_data(utils_n_cases, 10, <<30, 60, 80>>, utils_p_draw, state)

fsys == [files |-> files, contents |-> contents]

\* No call made yet.
NotCalled == [exc |-> "not called", ret |-> None, arg |-> None]

\* No caller of both modules.
NoTwins == [fn |-> "none", rng |-> 0, utils |-> NotCalled, data_loader |-> NotCalled]
TwinsIdle == twins = NoTwins

\* The viewer before its first run; the filter machine at rest.
AppIdle ==
  /\ files = {}
  /\ contents = <<>>
  /\ rng = 1
  /\ widgets = [results_path |-> default_path, demo_mode |-> FALSE, page |-> "Dashboard"]
  /\ session_state = EmptyDict
  /\ cache = <<>>
  /\ validated = None
  /\ screen = Blank
  /\ loads = <<>>
  /\ bundle = None
  /\ runtime = Runtime(IndexedBuild, <<>>, FALSE)

\* No caller of the loader.
LoaderIdle ==
  /\ loaded = [results_root |-> <<>>, demo_mode |-> FALSE, rng |-> 0, result |-> NotCalled]
  /\ first_demo = loaded

FilterIdle ==
  /\ df = None
  /\ filters = EmptyDict
  /\ filtered = NotCalled
  /\ refiltered = NotCalled
  /\ pc = "idle"
  /\ aggregates = None

\* The session opens: the widgets at their defaults, nothing in the session
\* state or the cache, nothing rendered.  The user of these runs works the
\* sidebar alone, so no keyed widget changes and the builds' identity rules
\* give the same runs.
Init ==
  /\ \E holds \in [Roots -> RootFiles \cup ArchiveFiles] :
       /\ holds[Resolve(default_path)] \in RootFiles
       /\ \A r \in Roots \ {Resolve(default_path)} : holds[r] \in ArchiveFiles
       /\ files = FileSystem(holds).files
       /\ contents = FileSystem(holds).contents
  /\ rng \in RngStates
  /\ widgets = [results_path |-> default_path, demo_mode |-> FALSE, page |-> "Dashboard"]
  /\ session_state = EmptyDict
  /\ cache = <<>>
  /\ validated = None
  /\ screen = Blank
  /\ loads = <<>>
  /\ bundle = None
  /\ runtime = Runtime(IndexedBuild, <<>>, FALSE)
  /\ FilterIdle
  /\ LoaderIdle
  /\ TwinsIdle

\* One run of main with the sidebar's widgets as w and the keyed widgets'
\* states as in ss, started by a press of the button `click` or by no button.
Run(w, ss, click) ==
  \E m \in {main(fsys, rng, w, ss, cache, runtime, click)} :
    /\ widgets' = w
    /\ runtime' = m.runtime
    /\ session_state' = m.session_state
    /\ cache' = m.cache
    /\ validated' = m.validated
    /\ screen' = m.screen
    /\ rng' = m.rng
    /\ loads' = m.loads
    /\ bundle' = m.bundle
    /\ UNCHANGED <<files, contents, filtervars, loadervars, twinvars>>

\* One run of main with the widgets as w.
Rerun(w) == Run(w, session_state, "none")

\* The script's first run, the widgets at their defaults.
Start ==
  /\ screen.page = "none"
  /\ Rerun(widgets)

\* The user types a results folder.
ChangeResultsPath(rp) ==
  /\ screen.page # "none"
  /\ rp # widgets.results_path
  /\ Rerun([widgets EXCEPT !.results_path = rp])

\* The user ticks or unticks Demo Mode.
ToggleDemoMode ==
  /\ screen.page # "none"
  /\ Rerun([widgets EXCEPT !.demo_mode = ~widgets.demo_mode])

\* The user picks a page in the navigation radio.
Navigate(page) ==
  /\ screen.page # "none"
  /\ page # widgets.page
  /\ Rerun([widgets EXCEPT !.page = page])

Next ==
  \/ Start
  \/ \E rp \in ResultsPaths : ChangeResultsPath(rp)
  \/ ToggleDemoMode
  \/ \E page \in Pages : Navigate(page)

Spec == Init /\ [][Next]_vars

\* -------------------------------------------------- the filter, as a machine
\* The caller holds a case index (or None) and a filter dict.
FilterInit ==
  /\ df \in {None} \cup {Some(d) : d \in DataFrames}
  /\ filters \in render_global_filter_bar(df) \cup {EmptyDict}
  /\ filtered = NotCalled
  /\ refiltered = NotCalled
  /\ pc = "start"
  /\ aggregates = None
  /\ AppIdle
  /\ LoaderIdle
  /\ TwinsIdle

\* filtered_df = apply_global_filters(index_df, filters), then the aggregates
\* over filtered_df: the dashboard's, which the page computes for an index
\* with rows, and the summary of compute_summary_metrics.
Apply ==
  /\ pc = "start"
  /\ LET r == apply_global_filters(df, filters) IN
       /\ filtered' = r
       /\ df' = r.arg
       /\ aggregates' =
            IF r.exc # "none" THEN None
            ELSE Some([dashboard |-> IF NoData(df) THEN None
                                     ELSE Some(key_metrics(Val(r.ret), EmptyDict)),
                       summary |-> compute_summary_metrics(Val(r.ret))])
  /\ pc' = "applied"
  /\ UNCHANGED <<filters, refiltered, appvars, loadervars, twinvars>>

\* apply_global_filters(filtered_df, filters): the same filter on its own result.
Reapply ==
  /\ pc = "applied"
  /\ filtered.exc = "none"
  /\ LET r == apply_global_filters(filtered.ret, filters) IN
       /\ refiltered' = r
       /\ filtered' = [filtered EXCEPT !.ret = r.arg]
  /\ pc' = "reapplied"
  /\ UNCHANGED <<df, filters, aggregates, appvars, loadervars, twinvars>>

FilterNext == Apply \/ Reapply

SpecFilter == FilterInit /\ [][FilterNext]_vars

\* ----------------------------------------------- the loader, as a machine
\* What a root holds besides its data files: case images, calibration plots
\* and the plots at the root.
Extras ==
  { <<{}, "absent", {}>>,
    <<{1}, "empty", {roc_curves_png}>>,
    <<{2}, "plots", {pr_curves_png, confusion_matrices_png}>>,
    <<{1, 2}, "plots", {roc_curves_png}>> }

\* What the first root holds for a caller of the loader: each data file
\* absent, unparseable or parsed, in every combination, with extras.
LoaderRootFiles ==
  { Holds(ix, mp, ms, rc, ex[1], ex[2], ex[3]) :
      ix \in {None, Some(Malformed)} \cup
             {Some(Table(d)) : d \in {x \in IndexTables : unique(x, "risk_band") = {"HIGH"}}},
      mp \in {None, Some(Malformed), Some(Table(<<>>))},
      ms \in {None, Some(Malformed), Some(Table(<<[metric |-> "auc", value |-> 91]>>))},
      rc \in {None, Some(Malformed), Some(Table([n_patients |-> 40]))},
      ex \in Extras }

\* A root that holds nothing, and one that holds everything.
EmptyRoot == Holds(None, None, None, None, {}, "absent", {})
FullRoot ==
  Holds(Some(Table(<<>>)), Some(Table(<<>>)), Some(Table(<<>>)),
        Some(Table([n_patients |-> 40])), {1, 2}, "plots", {roc_curves_png})

\* No call of load_all_data made.
NoLoad == [results_root |-> <<>>, demo_mode |-> FALSE, rng |-> 0, result |-> NotCalled]

\* A caller of the loader where the default root holds h and the other root
\* nothing, no call made yet.
LoaderStart(h) ==
  /\ LET holds == [r \in Roots |-> IF r = Resolve(default_path) THEN h ELSE EmptyRoot] IN
       /\ files = FileSystem(holds).files
       /\ contents = FileSystem(holds).contents
  /\ widgets = [results_path |-> default_path, demo_mode |-> FALSE, page |-> "Dashboard"]
  /\ session_state = EmptyDict
  /\ cache = <<>>
  /\ validated = None
  /\ screen = Blank
  /\ loads = <<>>
  /\ bundle = None
  /\ runtime = Runtime(IndexedBuild, <<>>, FALSE)
  /\ loaded = NoLoad
  /\ first_demo = NoLoad
  /\ FilterIdle
  /\ TwinsIdle

LoaderInit ==
  /\ \E h \in LoaderRootFiles : LoaderStart(h)
  /\ rng = 1

\* load_all_data(results_root, demo_mode), from the generator's state rng.
Load(results_root, demo_mode) ==
  LET call == [results_root |-> results_root, demo_mode |-> demo_mode, rng |-> rng,
               result |-> load_all_data(fsys, rng, results_root, demo_mode)]
  IN /\ loaded' = call
     /\ rng' = call.result.arg
     /\ first_demo' = IF demo_mode /\ first_demo = NoLoad THEN call ELSE first_demo
     /\ UNCHANGED <<files, contents, widgets, session_state, cache, validated, screen,
                    loads, bundle, runtime, filtervars, twinvars>>

LoaderNext == \E results_root \in Roots, demo_mode \in BOOLEAN : Load(results_root, demo_mode)

SpecLoader == LoaderInit /\ [][LoaderNext]_vars

\* ------------------------------------------- demo loading, as a machine
\* A caller of the demo loader in a process that uses the global generator
\* elsewhere: the generator starts in any state.
DemoInit ==
  /\ \E h \in {EmptyRoot, FullRoot} : LoaderStart(h)
  /\ rng \in RngStates

\* Another use of the global generator: np.random.random() somewhere.
UseGenerator ==
  /\ rng' = advance(rng, 1)
  /\ UNCHANGED <<files, contents, widgets, session_state, cache, validated, screen,
                 loads, bundle, runtime, filtervars, loadervars, twinvars>>

DemoNext ==
  \/ \E results_root \in Roots : Load(results_root, TRUE)
  \/ UseGenerator

SpecDemo == DemoInit /\ [][DemoNext]_vars

\* ------------------------------------- the two modules, as a machine
\* What a root holds for a caller of both validators: each required file
\* present or absent.
TwinFiles ==
  { Holds(ix, mp, None, None, {}, "absent", {}) :
      ix \in {None, Some(Table(<<>>))}, mp \in {None, Some(Table(<<>>))} }

\* A caller of both modules, no call made yet: either one about to filter,
\* with a case index (or None) and a filter dict, over roots that hold
\* nothing, or one about to validate a root or to generate the demo table,
\* over roots that hold any of TwinFiles and with the generator in any state.
TwinInit ==
  /\ \/ /\ df \in {None} \cup {Some(d) : d \in DataFrames}
        /\ filters \in render_global_filter_bar(df) \cup {EmptyDict}
        /\ files = {}
        /\ contents = <<>>
        /\ rng = 1
        /\ pc = "filters"
     \/ /\ df = None
        /\ filters = EmptyDict
        /\ \E holds \in [Roots -> TwinFiles] :
             /\ files = FileSystem(holds).files
             /\ contents = FileSystem(holds).contents
        /\ rng \in RngStates
        /\ pc = "files"
  /\ filtered = NotCalled
  /\ refiltered = NotCalled
  /\ aggregates = None
  /\ widgets = [results_path |-> default_path, demo_mode |-> FALSE, page |-> "Dashboard"]
  /\ session_state = EmptyDict
  /\ cache = <<>>
  /\ validated = None
  /\ screen = Blank
  /\ loads = <<>>
  /\ bundle = None
  /\ runtime = Runtime(IndexedBuild, <<>>, FALSE)
  /\ LoaderIdle
  /\ TwinsIdle

\* filter_dataframe of each module on the caller's index with the entries of
\* its filter dict, the four range bounds passed or left at their default None.
TwinFilter(bounded) ==
  /\ pc = "filters"
  /\ pc' = "called"
  /\ LET prob == Get(filters, "prob_range", <<0, 100>>)
         uncert == Get(filters, "uncert_range", <<0, 100>>)
         Bound(v) == IF bounded THEN Some(v) ELSE None
     IN twins' = [fn |-> "filter_dataframe", rng |-> rng,
                  utils |-> utils_filter_dataframe(df, GetOpt(filters, "risk_bands"),
                                                   GetOpt(filters, "y_true"),
                                                   GetOpt(filters, "folds"),
                                                   Bound(prob[1]), Bound(prob[2]),
                                                   Bound(uncert[1]), Bound(uncert[2])),
                  data_loader |-> filter_dataframe(df, GetOpt(filters, "risk_bands"),
                                                   GetOpt(filters, "y_true"),
                                                   GetOpt(filters, "folds"),
                                                   Bound(prob[1]), Bound(prob[2]),
                                                   Bound(uncert[1]), Bound(uncert[2]))]
  /\ UNCHANGED <<df, filters, filtered, refiltered, aggregates, appvars, loadervars>>

\* validate_results_structure of each module on the root.
TwinValidate(results_root) ==
  /\ pc = "files"
  /\ pc' = "called"
  /\ twins' = [fn |-> "validate_results_structure", rng |-> rng,
               utils |-> Return(utils_validate_results_structure(fsys, results_root),
                                results_root),
               data_loader |-> Return(validate_results_structure(fsys, results_root),
                                      results_root)]
  /\ UNCHANGED <<df, filters, filtered, refiltered, aggregates, appvars, loadervars>>

\* generate_demo_data of each module, each from the generator's state rng:
\* the table, and the state the call leaves the generator in.
TwinDemo ==
  /\ pc = "files"
  /\ pc' = "called"
  /\ LET u == utils_generate_demo_data(rng)
         d == generate_demo_data(rng)
     IN /\ twins' = [fn |-> "generate_demo_data", rng |-> rng,
                     utils |-> Return(Some(u.df), u.rng),
                     data_loader |-> Return(Some(d.df), d.rng)]
        /\ rng' = d.rng
  /\ UNCHANGED <<files, contents, widgets, session_state, cache, validated, screen,
                 loads, bundle, runtime, df, filters, filtered, refiltered, aggregates,
                 loadervars>>

TwinNext ==
  \/ \E bounded \in BOOLEAN : TwinFilter(bounded)
  \/ \E results_root \in Roots : TwinValidate(results_root)
  \/ TwinDemo

SpecTwins == TwinInit /\ [][TwinNext]_vars

\* ------------------------------------------------ a session, as a machine
\* The case index of a session: a LOW, a MODERATE and a HIGH case.
SessionTable ==
  [i \in 1..3 |->
     MkRow(i, CHOOSE c \in CaseValues : c.risk_band = <<"LOW", "MODERATE", "HIGH">>[i])]

\* The roots of a session: the default one holds the index, the mapping and
\* the image of the first case; the other one an index of the HIGH case
\* alone, the mapping and the image of the second case.
SessionHolds ==
  [r \in Roots |->
     IF r = Resolve(default_path)
     THEN Holds(Some(Table(SessionTable)), Some(Table(<<>>)), None, None, {1}, "absent", {})
     ELSE Holds(Some(Table(SubSeq(SessionTable, 3, 3))), Some(Table(<<>>)), None, None, {2},
                "absent", {})]

\* A user opens the viewer on the default folder, under one of the builds.
SessionInit ==
  /\ files = FileSystem(SessionHolds).files
  /\ contents = FileSystem(SessionHolds).contents
  /\ rng = 1
  /\ widgets = [results_path |-> default_path, demo_mode |-> FALSE, page |-> "Dashboard"]
  /\ session_state = EmptyDict
  /\ cache = <<>>
  /\ validated = None
  /\ screen = Blank
  /\ loads = <<>>
  /\ bundle = None
  /\ runtime \in {Runtime(build, <<>>, FALSE) : build \in Builds}
  /\ FilterIdle
  /\ LoaderIdle
  /\ TwinsIdle

\* The buttons with a key.
Buttons == {"dashboard_reset", "explorer_reset", "goto_high", "goto_uncert"}

\* The values the user of a session gives a keyed widget (registered with the
\* options or bounds `bounds`): for the filter widgets the no-constraint
\* value and another, for a selectbox each of its options, for the search
\* box the terms of SearchTerms.
UserValues(key, bounds) ==
  IF key = "dashboard_risk_select" THEN {{}, {"LOW"}, {"HIGH"}}
  ELSE IF key = "explorer_risk_select" THEN {{}, {"HIGH"}}
  ELSE IF key = "explorer_class_select" THEN {{}, {0}}
  ELSE IF key = "dashboard_prob_slider" THEN {<<0, 100>>, <<0, 0>>}
  ELSE IF key = "explorer_uncert_slider" THEN {<<0, bounds[2]>>, <<0, 5>>}
  ELSE IF key \in {"view_high", "case_selector"} THEN Range(bounds)
  ELSE IF key = "case_search" THEN SearchTerms
  ELSE {}

\* The user gives the widget `key` on the page the value v: the run that
\* follows finds v as the widget's state.
SetWidget(key, v) ==
  /\ ~runtime.rerun
  /\ key \in DOMAIN runtime.ids \ Buttons
  /\ v \in UserValues(key, runtime.ids[key].bounds)
  /\ v # session_state[key]
  /\ Run(widgets, setitem(session_state, key, v), "none")

\* The user presses a button of the page.
Click(key) ==
  /\ ~runtime.rerun
  /\ key \in DOMAIN runtime.ids \cap Buttons
  /\ Run(widgets, session_state, key)

\* The run st.rerun() asked for.
RerunRequested ==
  /\ runtime.rerun
  /\ Run(widgets, session_state, "none")

\* The user picks a page in the navigation radio.
SessionNavigate(page) ==
  /\ ~runtime.rerun
  /\ Navigate(page)

\* The user types a results folder.
SessionConnect(rp) ==
  /\ ~runtime.rerun
  /\ ChangeResultsPath(rp)

SessionNext ==
  \/ Start
  \/ \E page \in Pages : SessionNavigate(page)
  \/ \E rp \in ResultsPaths : SessionConnect(rp)
  \/ \E key \in DOMAIN runtime.ids \ Buttons :
       \E v \in UserValues(key, runtime.ids[key].bounds) : SetWidget(key, v)
  \/ \E key \in Buttons : Click(key)
  \/ RerunRequested

SpecSession == SessionInit /\ [][SessionNext]_vars

\* ====================================================== the filter's claims
\* What the filter state asks of a row, field by field, as the filter's
\* contract words it: an empty or absent set asks nothing.
WantBands(f) == Get(f, "risk_bands", {})
WantClasses(f) == Get(f, "y_true", {})
WantFolds(f) == Get(f, "folds", {})
WantProb(f) == Get(f, "prob_range", <<0, 100>>)
WantUncert(f) == Get(f, "uncert_range", <<0, 100>>)

BandOk(r, f) == WantBands(f) = {} \/ r.risk_band \in WantBands(f)
ClassOk(r, f) == WantClasses(f) = {} \/ r.y_true \in WantClasses(f)
FoldOk(r, f) == WantFolds(f) = {} \/ r.fold \in WantFolds(f)
ProbOk(r, f) == WantProb(f)[1] <= r.p_calibrated /\ r.p_calibrated <= WantProb(f)[2]
UncertOk(r, f) == WantUncert(f)[1] <= r.uncertainty_std /\ r.uncertainty_std <= WantUncert(f)[2]

Satisfies(r, f) == BandOk(r, f) /\ ClassOk(r, f) /\ FoldOk(r, f) /\ ProbOk(r, f) /\ UncertOk(r, f)

\* The first call has returned a DataFrame.
Filtered == pc # "start" /\ filtered.exc = "none"

\* The rows given to and returned by the first call.
InRows == Val(df)
OutRows == Val(filtered.ret)

Column(rows, col) == [i \in 1..Len(rows) |-> rows[i][col]]

\* No set and no range of the filter state excludes a row of rows.
Unconstrained(f, rows) ==
  /\ WantBands(f) = {} /\ WantClasses(f) = {} /\ WantFolds(f) = {}
  /\ \A i \in 1..Len(rows) : ProbOk(rows[i], f) /\ UncertOk(rows[i], f)

\* C1: the rows filter_dataframe returns are exactly the rows of the input that
\* satisfy every active constraint: none that violates one is kept, none that
\* satisfies all is dropped, none is returned twice.  With risk_band =
\* [LOW, HIGH, HIGH] and risk_bands = {HIGH} as the only constraint, the
\* result is the 2 HIGH rows.
C1_SoundAndComplete ==
  Filtered =>
    /\ Range(OutRows) = {r \in Range(InRows) : Satisfies(r, filters)}
    /\ Len(OutRows) = Cardinality(Range(OutRows))
    /\ ( /\ Column(InRows, "risk_band") = <<"LOW", "HIGH", "HIGH">>
         /\ DOMAIN filters # {}
         /\ Unconstrained([filters EXCEPT !.risk_bands = {}], InRows)
         /\ filters.risk_bands = {"HIGH"}
         => /\ Len(OutRows) = 2
            /\ \A i \in 1..2 : OutRows[i].risk_band = "HIGH" )

\* C1's case: the scenario [LOW, HIGH, HIGH] filtered by {HIGH} alone.
C1_Witness ==
  /\ Filtered
  /\ Column(InRows, "risk_band") = <<"LOW", "HIGH", "HIGH">>
  /\ DOMAIN filters # {}
  /\ filters.risk_bands = {"HIGH"}
  /\ Unconstrained([filters EXCEPT !.risk_bands = {}], InRows)
  /\ Len(OutRows) = 2

\* The rows of rows, in order, that pass test.
Keep(rows, test(_)) == SelectSeq(rows, test)

\* C2: an empty or absent set of risk bands, of classes or of folds asks
\* nothing: the result is the rows the other four constraints retain, each
\* field on its own; when nothing else constrains, every row is kept.
C2_EmptySetNoConstraint ==
  Filtered =>
    /\ WantBands(filters) = {} =>
         OutRows = Keep(InRows, LAMBDA r : /\ ClassOk(r, filters) /\ FoldOk(r, filters)
                                           /\ ProbOk(r, filters) /\ UncertOk(r, filters))
    /\ WantClasses(filters) = {} =>
         OutRows = Keep(InRows, LAMBDA r : /\ BandOk(r, filters) /\ FoldOk(r, filters)
                                           /\ ProbOk(r, filters) /\ UncertOk(r, filters))
    /\ WantFolds(filters) = {} =>
         OutRows = Keep(InRows, LAMBDA r : /\ BandOk(r, filters) /\ ClassOk(r, filters)
                                           /\ ProbOk(r, filters) /\ UncertOk(r, filters))
    /\ Unconstrained(filters, InRows) => OutRows = InRows

\* C2's case: the class set and the fold set are the empty list, a risk band
\* is selected, and the rows of that band are kept whatever their class and
\* fold.
C2_Witness ==
  /\ Filtered
  /\ DOMAIN filters # {}
  /\ filters.y_true = {} /\ filters.folds = {} /\ filters.risk_bands = {"HIGH"}
  /\ Unconstrained([filters EXCEPT !.risk_bands = {}], InRows)
  /\ Column(InRows, "risk_band") = <<"HIGH", "LOW", "HIGH">>
  /\ Len(OutRows) = 2

\* C2's case with the keys absent: the dict {} on a case index with rows.
C2_WitnessAbsent ==
  /\ Filtered
  /\ DOMAIN filters = {}
  /\ Len(InRows) = 3
  /\ OutRows = InRows

\* C3: both bounds of both ranges are inclusive: a row whose p_calibrated is
\* prob_min or prob_max, or whose uncertainty_std is uncert_min or uncert_max,
\* is kept when the other constraints keep it.  The range (0.5, 1.0) on
\* p_calibrated = [0.2, 0.5, 0.9] keeps exactly the rows with 0.5 and 0.9.
C3_InclusiveBounds ==
  Filtered =>
    /\ \A i \in 1..Len(InRows) :
         LET r == InRows[i] IN
           /\ ( /\ r.p_calibrated \in {WantProb(filters)[1], WantProb(filters)[2]}
                /\ ProbOk(r, filters)
                /\ BandOk(r, filters) /\ ClassOk(r, filters) /\ FoldOk(r, filters)
                /\ UncertOk(r, filters) ) => r \in Range(OutRows)
           /\ ( /\ r.uncertainty_std \in {WantUncert(filters)[1], WantUncert(filters)[2]}
                /\ UncertOk(r, filters)
                /\ BandOk(r, filters) /\ ClassOk(r, filters) /\ FoldOk(r, filters)
                /\ ProbOk(r, filters) ) => r \in Range(OutRows)
    /\ ( /\ Column(InRows, "p_calibrated") = <<20, 50, 90>>
         /\ DOMAIN filters # {}
         /\ filters.prob_range = <<50, 100>>
         /\ Unconstrained([filters EXCEPT !.prob_range = <<0, 100>>], InRows)
         => Column(OutRows, "p_calibrated") = <<50, 90>> )

\* C3's case: the scenario, with a row on the lower bound 0.5, and a row on
\* the upper bound of the uncertainty range.
C3_Witness ==
  /\ Filtered
  /\ Column(InRows, "p_calibrated") = <<20, 50, 90>>
  /\ DOMAIN filters # {}
  /\ filters.prob_range = <<50, 100>>
  /\ filters.uncert_range = <<0, 15>>
  /\ Unconstrained([filters EXCEPT !.prob_range = <<0, 100>>], InRows)
  /\ Column(OutRows, "p_calibrated") = <<50, 90>>

\* The filter state is the one render_global_filter_bar initialises.
IsInitial(f, rows) == DOMAIN f # {} /\ f = InitialFilters(rows)

\* C4: with the filter state render_global_filter_bar initialises (the three
\* sets empty, probability (0.0, 1.0), uncertainty (0.0, max observed)) the
\* filter returns the input: the same rows, in the same order, with the same
\* values.
C4_Identity ==
  (Filtered /\ IsInitial(filters, InRows)) => filtered.ret = df

\* C4's case: the initial state applied to three rows of different
\* uncertainty, one of them the maximum.
C4_Witness ==
  /\ Filtered
  /\ IsInitial(filters, InRows)
  /\ Column(InRows, "uncertainty_std") = <<15, 0, 5>>

\* C5: the filter applied to its own result returns that result: the same
\* rows in the same order.
C5_Idempotent ==
  pc = "reapplied" => refiltered.exc = "none" /\ refiltered.ret = filtered.ret

\* C5's case: a second call on a result that kept some rows and dropped others.
C5_Witness ==
  /\ pc = "reapplied"
  /\ Len(InRows) = 3
  /\ Len(OutRows) = 2
  /\ Len(Val(refiltered.ret)) = 2

RECURSIVE IsSubsequence(_, _)
IsSubsequence(s, t) ==
  IF Len(s) = 0 THEN TRUE
  ELSE IF Len(t) = 0 THEN FALSE
  ELSE IF Head(s) = Head(t) THEN IsSubsequence(Tail(s), Tail(t))
  ELSE IsSubsequence(s, Tail(t))

\* C6: the output is a subsequence of the input: its rows are rows of the
\* input, each at most once, in the input's relative order.
C6_Stable ==
  Filtered => IsSubsequence(OutRows, InRows)

\* C6's case: the filter drops the middle row of three and keeps the outer two.
C6_Witness ==
  /\ Filtered
  /\ Len(InRows) = 3
  /\ Len(OutRows) = 2
  /\ OutRows[1] = InRows[1]
  /\ OutRows[2] = InRows[3]

\* C7: a call of the filter leaves its input as it was: the caller's case
\* index after the call has the rows, the order and the values it had before
\* it, in the first call and in the call on the first call's result.
C7_InputNotMutated ==
  [][ /\ df' = df
      /\ (pc = "applied" => filtered'.ret = filtered.ret) ]_vars

\* C7's case: a call that returned fewer rows than its input has.
C7_Witness ==
  /\ Filtered
  /\ Len(InRows) = 3
  /\ Len(OutRows) = 1

\* C8: on an input case index that is None or has no rows, the filter returns
\* the input and raises nothing.
C8_AbsentOrEmptyUnchanged ==
  (pc # "start" /\ (IsNone(df) \/ Len(Val(df)) = 0)) =>
    filtered.exc = "none" /\ filtered.ret = df

\* C8 on the empty case index alone, where the code does return the input.
C8_EmptyUnchanged ==
  (pc # "start" /\ ~IsNone(df) /\ Len(Val(df)) = 0) =>
    filtered.exc = "none" /\ filtered.ret = df

\* The aggregates were computed over an empty filtered view of an index with
\* rows (the page computes none for an index without).
EmptyView ==
  /\ Filtered /\ Len(OutRows) = 0
  /\ ~IsNone(aggregates) /\ ~IsNone(Val(aggregates).dashboard)

\* The dashboard's metrics and the summary of the last Apply.
Dashboard == Val(Val(aggregates).dashboard)
Summary == Val(aggregates).summary

\* C17: over a filtered view without rows, the average probability and the
\* average uncertainty the dashboard computes are 0, and so are
\* mean_probability and mean_uncertainty of compute_summary_metrics.
C17_MeanZeroOnEmpty ==
  EmptyView =>
    /\ Dashboard.avg_prob = Float(0) /\ Dashboard.avg_uncert = Float(0)
    /\ {"mean_probability", "mean_uncertainty"} \subseteq DOMAIN Summary
    /\ Get(Summary, "mean_probability", NaN) = Float(0)
    /\ Get(Summary, "mean_uncertainty", NaN) = Float(0)

\* What the code computes over an empty view: NaN for both averages of the
\* dashboard, and a summary without any key.
C17_MeanNaNOnEmpty ==
  EmptyView =>
    /\ Dashboard.avg_prob = NaN /\ Dashboard.avg_uncert = NaN
    /\ Summary = EmptyDict

\* ====================================================== the viewer's claims
\* The last run was made outside demo mode, so it called the validator.
Validated == screen.page # "none" /\ ~IsNone(validated)

\* The validator's answer in the last run.
isValid == Val(validated)[1]
missing == Val(validated)[2]

\* The required names, in their fixed order, that do not exist under root.
MissingUnder(root) ==
  (IF Join(root, index_csv) \in files THEN <<>> ELSE <<index_csv>>) \o
  (IF Join(root, case_mapping_csv) \in files THEN <<>> ELSE <<case_mapping_csv>>)

\* C9: validate_results_structure(root) returns (isValid, missing) with
\* missing exactly the required relative names, in their fixed order, that do
\* not exist under root, and isValid true iff missing is empty; each element
\* is one of the two relative names, never an absolute path.  With index.csv
\* present and case_mapping.csv not, the result is
\* (False, ['explainability_reports/case_mapping.csv']).
C9_ValidateMissing ==
  Validated =>
    /\ missing = MissingUnder(screen.results_root)
    /\ isValid = (Len(missing) = 0)
    /\ \A i \in 1..Len(missing) :
         missing[i] \in {index_csv, case_mapping_csv} /\ ~IsAbsolute(missing[i])
    /\ ( /\ Join(screen.results_root, index_csv) \in files
         /\ Join(screen.results_root, case_mapping_csv) \notin files
         => validated = Some(<<FALSE, <<case_mapping_csv>>>>) )

\* C9's case: a run on a root that holds index.csv and no case_mapping.csv.
C9_Witness ==
  /\ Validated
  /\ Join(screen.results_root, index_csv) \in files
  /\ Join(screen.results_root, case_mapping_csv) \notin files
  /\ isValid = FALSE
  /\ missing = <<case_mapping_csv>>

\* C9's other cases: a root with both files, and a root with neither.
C9_WitnessValid == Validated /\ isValid /\ missing = <<>>
C9_WitnessBoth == Validated /\ ~isValid /\ missing = <<index_csv, case_mapping_csv>>

\* C10: outside demo mode, a run in which the validator reports the root
\* invalid shows the connection as failed and renders no dashboard and no
\* case explorer from the root's case index.
C10_HardGate ==
  (Validated /\ ~isValid) =>
    /\ ~screen.connection.connected
    /\ screen.body.kind \notin {"dashboard", "case explorer"}

\* What the code does do in such a run: the sidebar shows the connection as
\* failed, with the number of missing files.
C10_ConnectionFailedShown ==
  (Validated /\ ~isValid) =>
    /\ ~screen.connection.connected
    /\ screen.warning = Some(Len(missing))

\* ====================================================== the loader's claims
\* The last call of load_all_data, when it was a demo call that returned.
DemoLoaded == loaded.demo_mode /\ loaded.result.exc = "none"

\* The last call of load_all_data, when it was made on a root and returned.
RootLoaded == loaded # NoLoad /\ ~loaded.demo_mode /\ loaded.result.exc = "none"

\* The bundle of the last call.
Bundle == loaded.result.ret

\* A filesystem with nothing in it.
EmptyFS == FileSystem([r \in Roots |-> EmptyRoot])

\* The flags of the optional artifacts.
OptionalFlags ==
  {"case_images", "metrics_summary", "run_config", "calibration_plots",
   "roc_curves", "pr_curves", "confusion_matrix"}

\* C11: load_all_data(root, demo_mode=True) ignores root and disk: it returns
\* a case index of n_cases synthetic rows, is_demo true, no case mapping, no
\* metrics summary, no run configuration, every optional artifact flag false
\* and case_image_count 0; the bundle is the one of the first demo call,
\* whatever root that was for, and the one the call gives for any root on an
\* empty filesystem from any state of the generator.
C11_DemoIgnoresRoot ==
  (loaded.demo_mode /\ loaded # NoLoad) =>
    /\ loaded.result.exc = "none"
    /\ Bundle.is_demo
    /\ ~IsNone(Bundle.index_df) /\ Len(Val(Bundle.index_df)) = n_cases
    /\ IsNone(Bundle.case_mapping)
    /\ IsNone(Bundle.metrics_summary)
    /\ IsNone(Bundle.run_config)
    /\ \A flag \in OptionalFlags : Bundle.artifacts[flag] = FALSE
    /\ Bundle.artifacts.case_image_count = 0
    /\ Bundle = first_demo.result.ret
    /\ \A r \in Roots, k \in RngStates : load_all_data(EmptyFS, k, r, TRUE).ret = Bundle

\* C11's case: a demo call on a root that holds a metrics summary, a run
\* configuration, case images and plots, after a demo call on the other root.
C11_Witness ==
  /\ DemoLoaded
  /\ first_demo.results_root # loaded.results_root
  /\ Join(loaded.results_root, patient_metrics_summary_csv) \in files
  /\ Join(loaded.results_root, run_config_json) \in files
  /\ Join(loaded.results_root, roc_curves_png) \in files
  /\ Join(loaded.results_root, explainability_reports \o <<png_of(1)>>) \in files
  /\ Bundle.artifacts.case_image_count = 0

\* C12: two demo calls of the loader return the same case_id sequence and the
\* same values in every row, whatever was done between them, other uses of
\* the random generator included.
C12_DemoDeterministic ==
  (DemoLoaded /\ first_demo # NoLoad) =>
    /\ Column(Val(Bundle.index_df), "case_id") =
         Column(Val(first_demo.result.ret.index_df), "case_id")
    /\ Val(Bundle.index_df) = Val(first_demo.result.ret.index_df)

\* C12's case: a second demo call made with the generator in another state
\* than it was in at the first.
C12_Witness ==
  /\ DemoLoaded
  /\ first_demo # NoLoad
  /\ first_demo.rng # loaded.rng
  /\ first_demo.rng # np_random_seed(loaded.rng, 42)
  /\ Val(Bundle.index_df) = Val(first_demo.result.ret.index_df)

\* The threshold policy: the bands in ascending order of risk, and the
\* probabilities at which the next band starts.
BandOrder == <<"LOW", "LOW-MOD", "MODERATE", "HIGH">>
Thresholds == <<30, 50, 75>>
Rank(band) == CHOOSE k \in 1..Len(BandOrder) : BandOrder[k] = band
PolicyBand(p) == BandOrder[1 + Cardinality({i \in 1..Len(Thresholds) : Thresholds[i] <= p})]
Probabilities == 0..100

\* C13: every row of the demo dataset has the band its p_calibrated implies
\* under the threshold policy; the bands the code gives the probabilities of
\* [0, 1] are exactly the four, never a lower band for a larger probability,
\* the boundary values 0.3, 0.5 and 0.75 in the upper band, each probability
\* inside the gauge step of its band.
C13_BandPolicy ==
  DemoLoaded =>
    /\ \A i \in 1..Len(Val(Bundle.index_df)) :
         Val(Bundle.index_df)[i].risk_band = PolicyBand(Val(Bundle.index_df)[i].p_calibrated)
    /\ {risk_band_of(p) : p \in Probabilities} = Range(BandOrder)
    /\ \A p \in Probabilities, q \in Probabilities :
         p <= q => Rank(risk_band_of(p)) <= Rank(risk_band_of(q))
    /\ risk_band_of(30) = "LOW-MOD" /\ risk_band_of(50) = "MODERATE" /\ risk_band_of(75) = "HIGH"
    /\ \A p \in Probabilities :
         /\ gauge_steps[Rank(risk_band_of(p))][1] <= p
         /\ p <= gauge_steps[Rank(risk_band_of(p))][2]

\* C13's case: a demo dataset with a row on each boundary and one in LOW.
C13_Witness ==
  /\ DemoLoaded
  /\ \E i \in 1..n_cases : /\ Val(Bundle.index_df)[i].p_calibrated = 30
                           /\ Val(Bundle.index_df)[i].risk_band = "LOW-MOD"
  /\ \E i \in 1..n_cases : /\ Val(Bundle.index_df)[i].p_calibrated = 50
                           /\ Val(Bundle.index_df)[i].risk_band = "MODERATE"
  /\ \E i \in 1..n_cases : /\ Val(Bundle.index_df)[i].p_calibrated = 75
                           /\ Val(Bundle.index_df)[i].risk_band = "HIGH"
  /\ \E i \in 1..n_cases : Val(Bundle.index_df)[i].risk_band = "LOW"

\* The data files of a root, by the bundle's key.
DataFiles ==
  [index_df |-> index_csv, case_mapping |-> case_mapping_csv,
   metrics_summary |-> patient_metrics_summary_csv, run_config |-> run_config_json]

\* How the file of an artifact stands under root: missing, malformed or present.
FileState(root, artifact) ==
  IF Join(root, DataFiles[artifact]) \notin files THEN "missing"
  ELSE IF contents[Join(root, DataFiles[artifact])].parse = "ok" THEN "present"
  ELSE "malformed"

\* What the file of an artifact holds, for a file that is present.
Stored(root, artifact) == contents[Join(root, DataFiles[artifact])].rows

\* C14: a non-demo load returns a bundle and never raises, whatever
\* combination of present, missing and malformed the four data files are
\* in; each artifact is None when its file is missing or malformed and what
\* its file holds when present, whatever the state of the other three.
C14_BestEffort ==
  (loaded # NoLoad /\ ~loaded.demo_mode) =>
    /\ loaded.result.exc = "none"
    /\ ~Bundle.is_demo
    /\ \A artifact \in DOMAIN DataFiles :
         Bundle[artifact] =
           IF FileState(loaded.results_root, artifact) = "present"
           THEN Some(Stored(loaded.results_root, artifact)) ELSE None

\* C14's case: a load of a root whose case index is malformed, whose metrics
\* summary is missing and whose case mapping and run configuration are
\* present.
C14_Witness ==
  /\ RootLoaded
  /\ FileState(loaded.results_root, "index_df") = "malformed"
  /\ FileState(loaded.results_root, "metrics_summary") = "missing"
  /\ FileState(loaded.results_root, "case_mapping") = "present"
  /\ FileState(loaded.results_root, "run_config") = "present"
  /\ IsNone(Bundle.index_df) /\ IsNone(Bundle.metrics_summary)
  /\ Bundle.case_mapping = Some(<<>>)
  /\ Bundle.run_config = Some([n_patients |-> 40])

\* The filesystem without the file at path.
Without(fs, path) ==
  [files |-> fs.files \ {path},
   contents |-> [q \in DOMAIN fs.contents \ {path} |-> fs.contents[q]]]

\* The bundle of a load of root were the file of artifact missing.
BundleWithout(root, artifact) ==
  load_all_data(Without(fsys, Join(root, DataFiles[artifact])), loaded.rng, root, FALSE).ret

\* The availability flag of each artifact.
FlagOf ==
  [index_df |-> "index_csv", case_mapping |-> "case_mapping",
   metrics_summary |-> "metrics_summary", run_config |-> "run_config"]

\* C15: a load of a root where the file of an artifact exists and cannot be
\* parsed returns the bundle it would return were that file missing: the same
\* absent data and the same availability flag for the artifact.
C15_MalformedAsMissing ==
  RootLoaded =>
    \A artifact \in DOMAIN DataFiles :
      FileState(loaded.results_root, artifact) = "malformed" =>
        Bundle = BundleWithout(loaded.results_root, artifact)

\* What the code does for a malformed file: the data it returns are those of
\* the root without the file (the artifact None), the flags of the other
\* artifacts too; the artifact's own flag is True, where a missing file has
\* False.
C15_MalformedDataAsMissing ==
  RootLoaded =>
    \A artifact \in DOMAIN DataFiles :
      FileState(loaded.results_root, artifact) = "malformed" =>
        LET without == BundleWithout(loaded.results_root, artifact) IN
          /\ IsNone(Bundle[artifact])
          /\ \A a \in DOMAIN DataFiles : Bundle[a] = without[a]
          /\ \A flag \in DOMAIN Bundle.artifacts \ {FlagOf[artifact]} :
               Bundle.artifacts[flag] = without.artifacts[flag]
          /\ Bundle.artifacts[FlagOf[artifact]] = TRUE
          /\ without.artifacts[FlagOf[artifact]] = FALSE

\* The cases of the loaded index, none when there is no index.
LoadedCases == IF IsNone(Bundle.index_df) THEN <<>> ELSE Val(Bundle.index_df)

\* The rows of the loaded index whose image the lookup finds.
CasesWithImage ==
  { i \in 1..Len(LoadedCases) :
      ~IsNone(get_explainability_image_path(fsys, loaded.results_root, LoadedCases[i].case_id)) }

\* C16: after a load of a root, case_image_count is the number of cases of
\* the index for which get_explainability_image_path finds a file, and
\* case_images is true iff that number is positive.
C16_ImageCountMatchesLookup ==
  RootLoaded =>
    /\ Bundle.artifacts.case_image_count = Cardinality(CasesWithImage)
    /\ Bundle.artifacts.case_images = (Cardinality(CasesWithImage) > 0)

\* What the code counts: the Case-*.png files of explainability_reports,
\* whether or not the index has a case of that name.
C16_ImageCountIsGlob ==
  RootLoaded =>
    /\ Bundle.artifacts.case_image_count =
         Cardinality({i \in ImageNumbers :
                        Join(loaded.results_root, explainability_reports \o <<png_of(i)>>) \in files})
    /\ Bundle.artifacts.case_images = (Bundle.artifacts.case_image_count > 0)

\* ================================================== the dashboard's claims
\* The last run rendered the dashboard of a case index.
DashboardShown == screen.body.kind = "dashboard"

\* The filtered view the dashboard was computed over, and its two top tables.
View == screen.body.cases
TopHigh == Val(screen.body.metrics).top_high
TopUncert == Val(screen.body.metrics).top_uncert

\* The position in the view of the case a row of a top table is of.
PosIn(view, entry) == CHOOSE i \in 1..Len(view) : view[i].case_id = entry.case_id

\* top is the topN of view by col for n: min(n, size) rows of the view, in
\* descending order of col, rows of equal value in the view's order, no row
\* left out that has a larger value than one taken.
IsTopN(top, view, col, n) ==
  /\ Len(top) = (IF n < Len(view) THEN n ELSE Len(view))
  /\ \A k \in 1..Len(top) :
       /\ \E i \in 1..Len(view) : view[i].case_id = top[k].case_id
       /\ view[PosIn(view, top[k])][col] = top[k].value
       /\ view[PosIn(view, top[k])].risk_band = top[k].risk_band
  /\ \A k \in 1..Len(top), l \in 1..Len(top) :
       k < l => /\ top[k].value >= top[l].value
                /\ PosIn(view, top[k]) # PosIn(view, top[l])
                /\ top[k].value = top[l].value => PosIn(view, top[k]) < PosIn(view, top[l])
  /\ \A i \in 1..Len(view) :
       (\A k \in 1..Len(top) : top[k].case_id # view[i].case_id) =>
         \A k \in 1..Len(top) : view[i][col] <= top[k].value

\* C18: the dashboard's top-5 tables by p_calibrated and by uncertainty_std
\* hold min(5, size of the view) cases of the filtered view, the largest of
\* it, in descending order of the field, cases of equal value in their
\* original order; all cases when the view has fewer than 5.
C18_TopN ==
  DashboardShown =>
    /\ IsTopN(TopHigh, View, "p_calibrated", 5)
    /\ IsTopN(TopUncert, View, "uncertainty_std", 5)
    /\ Len(View) < 5 => Len(TopHigh) = Len(View) /\ Len(TopUncert) = Len(View)

\* C18's case: a view of more than five cases whose five largest are equal
\* in probability and come in the view's order, the largest uncertainty on a
\* case that is not first in the view.
C18_Witness ==
  /\ DashboardShown
  /\ Len(View) > 5
  /\ Len(TopHigh) = 5
  /\ \A k \in 1..4 : /\ TopHigh[k].value = TopHigh[k + 1].value
                     /\ TopHigh[k].case_id < TopHigh[k + 1].case_id
  /\ \E k \in 1..5 : TopHigh[k].case_id # View[k].case_id
  /\ \E i \in 1..Len(View) : /\ View[i].p_calibrated = TopHigh[1].value
                             /\ \A k \in 1..5 : TopHigh[k].case_id # View[i].case_id
  /\ TopUncert[1].case_id # View[1].case_id

\* C18's other case: a view of fewer than five cases, all of them returned.
C18_WitnessFew == DashboardShown /\ Len(View) = 1 /\ Len(TopHigh) = 1 /\ Len(TopUncert) = 1

\* ====================================================== the cache's claims
\* The (root, demoMode) of the run that rendered the screen.
KeyOf(scr) == <<scr.results_root, scr.demo_mode>>

\* C19: in every run of the viewer, a (root, demoMode) that an earlier run of
\* the session loaded is served from the cache, load_all_data not run and the
\* cache left as it was; any other (root, demoMode) is loaded afresh, once,
\* and added to the cache, the entries of the other keys kept; either way the
\* entry the run is served is what load_all_data gives for exactly its own
\* root and demo flag.
C19_CacheKeyed ==
  [][ LET key == KeyOf(screen') IN
        /\ key \in DOMAIN cache => loads' = <<>> /\ cache' = cache
        /\ key \notin DOMAIN cache =>
             /\ loads' = <<key>>
             /\ DOMAIN cache' = DOMAIN cache \cup {key}
             /\ \A k \in DOMAIN cache : cache'[k] = cache[k]
        /\ cache'[key] = load_all_data(fsys, rng, key[1], key[2]).ret
    ]_vars

\* C19's cases: a run served from the cache after the session loaded three
\* keys, demo and not; a run that loaded a second key of the same root.
C19_Witness ==
  /\ screen.page # "none"
  /\ loads = <<>>
  /\ Cardinality(DOMAIN cache) >= 3
  /\ KeyOf(screen) \in DOMAIN cache
  /\ bundle = Some(cache[KeyOf(screen)])

C19_WitnessMiss ==
  /\ loads = <<KeyOf(screen)>>
  /\ screen.demo_mode
  /\ <<screen.results_root, FALSE>> \in DOMAIN cache
  /\ cache[KeyOf(screen)] # cache[<<screen.results_root, FALSE>>]

\* Filter states a user can put a view's bar in: the one it starts in, the
\* HIGH band alone, the healthy class alone, the probability slider at (0, 0).
SampleFilters(rows) ==
  { InitialFilters(rows),
    [InitialFilters(rows) EXCEPT !.risk_bands = {"HIGH"}],
    [InitialFilters(rows) EXCEPT !.y_true = {0}],
    [InitialFilters(rows) EXCEPT !.prob_range = <<0, 0>>] }

PageOf(view) == IF view = "dashboard" THEN "Dashboard" ELSE "Case Explorer"
Views == {"dashboard", "explorer"}

\* The five keys of a view's filter state, and the state: for each key its
\* value in the session state, or None when the key is not set.
StateKeys == {"_risk_bands", "_y_true", "_folds", "_prob_range", "_uncert_range"}
ViewState(ss, view) == [k \in StateKeys |-> GetOpt(ss, view \o k)]

\* The view's bar has been rendered with data in this session.
Visited(ss, view) == \A k \in StateKeys : view \o k \in DOMAIN ss

\* The state a bar starts in and Reset Filters asks for, over the case
\* index `rows`.
NoConstraint(rows) ==
  [k \in StateKeys |->
     IF k \in {"_risk_bands", "_y_true", "_folds"} THEN Some({})
     ELSE IF k = "_prob_range" THEN Some(<<0, 100>>)
     ELSE Some(<<0, uncert_max_of(rows)>>)]

\* C21: the filter state is scoped per view and persists across navigation:
\* a run that renders another page than a view's own (the other view's, with
\* whatever change to its filters, or Performance) leaves the view's filter
\* state as it was, and the run that comes back to a view's page from another
\* page finds and leaves the state the view had when the user left it.
C21_ScopedAndPersistent ==
  [][ \A view \in Views :
        /\ screen'.page # PageOf(view) => ViewState(session_state', view) = ViewState(session_state, view)
        /\ ( /\ screen'.page = PageOf(view)
             /\ screen.page # PageOf(view)
             /\ Visited(session_state, view) )
           => ViewState(session_state', view) = ViewState(session_state, view)
    ]_vars

\* C21's case: the dashboard rendered again with the state it was left in
\* (the LOW band) while the explorer keeps the state it was given (the HIGH
\* band, healthy class), neither the no-constraint state.
C21_Witness ==
  /\ screen.page = "Dashboard"
  /\ screen.body.kind = "dashboard"
  /\ Visited(session_state, "explorer")
  /\ session_state["dashboard_risk_bands"] = {"LOW"}
  /\ session_state["explorer_risk_bands"] = {"HIGH"}
  /\ session_state["explorer_y_true"] = {0}
  /\ "explorer_risk_select" \notin DOMAIN session_state

\* The rows of the loaded case index that the filter state of `view` keeps.
Retained(view) ==
  Val(apply_global_filters(Val(bundle).index_df, filters_of(session_state, view)).ret)

\* A run has rendered the page of `view` over a loaded, non-empty case index,
\* and the view's filter state keeps no row of it.
EmptyResult(view) ==
  /\ screen.page = PageOf(view)
  /\ screen.body.kind # "rerun"
  /\ ~IsNone(bundle)
  /\ ~NoData(Val(bundle).index_df)
  /\ Visited(session_state, view)
  /\ Len(Retained(view)) = 0

\* The dashboard of an empty view: "Showing 0 of N cases", the counts and
\* the percentage 0, the two top tables empty.
ZeroDashboard ==
  /\ screen.body.kind = "dashboard"
  /\ screen.body.cases = <<>>
  /\ screen.body.total = Len(Val(Val(bundle).index_df))
  /\ Val(screen.body.metrics).n_cases = 0
  /\ Val(screen.body.metrics).n_high_risk = 0
  /\ Val(screen.body.metrics).pct_high = 0
  /\ Val(screen.body.metrics).top_high = <<>>
  /\ Val(screen.body.metrics).top_uncert = <<>>

\* The explorer of an empty view: "No cases match filters", no case selected
\* and no detail card.
ZeroExplorer ==
  /\ screen.body.kind = "case explorer"
  /\ screen.body.cases = <<>>
  /\ screen.body.selected = None
  /\ screen.body.detail = None

\* C22: a filter state that keeps no row of a non-empty case index is
\* displayed, not an error: the dashboard reports 0 of N cases, the counts
\* and the percentage 0 and empty top tables, the explorer reports that no
\* case matches with no case selected, and no exception ends the run.
C22_EmptyResultDisplayed ==
  /\ EmptyResult("dashboard") => ZeroDashboard
  /\ EmptyResult("explorer") => ZeroExplorer

\* C22 for the filter states whose risk bands and folds are values of the
\* loaded case index, as the widgets of the bar give them.
C22_EmptyResultOfOptions ==
  \A view \in Views :
    ( /\ EmptyResult(view)
      /\ session_state[view \o "_risk_bands"] \subseteq unique(Val(Val(bundle).index_df), "risk_band")
      /\ session_state[view \o "_folds"] \subseteq unique(Val(Val(bundle).index_df), "fold") )
    => IF view = "dashboard" THEN ZeroDashboard ELSE ZeroExplorer

\* The dashboard and the explorer have each displayed an empty view.
C22_WitnessDashboard == EmptyResult("dashboard") /\ ZeroDashboard
C22_WitnessExplorer == EmptyResult("explorer") /\ ZeroExplorer

\* <root>/explainability_reports/<caseId>.png
ImagePathFor(root, case_id) == Join(root, explainability_reports \o <<png_of(case_id)>>)

\* The case identifiers of a session's lookups: those of its case indexes
\* and one more.
LookupCases == 1..(Len(SessionTable) + 1)

\* C23: get_explainability_image_path(root, caseId) gives the path
\* <root>/explainability_reports/<caseId>.png iff that file exists and no
\* path otherwise, for every root and case; the image path of the detail
\* card the explorer renders is never the path of a file that does not exist.
C23_ImagePathExistenceChecked ==
  /\ \A root \in Roots : \A case_id \in LookupCases :
       get_explainability_image_path(fsys, root, case_id) =
         IF ImagePathFor(root, case_id) \in files THEN Some(ImagePathFor(root, case_id))
         ELSE None
  /\ ~IsNone(screen.body.detail) =>
       Val(screen.body.detail).image_path =
         IF ImagePathFor(screen.results_root, Val(screen.body.selected)) \in files
         THEN Some(ImagePathFor(screen.results_root, Val(screen.body.selected)))
         ELSE None

\* The explorer shows the detail of a case with its image, the file being
\* there, while a case of the index has no image under this root.
C23_Witness ==
  /\ screen.body.kind = "case explorer"
  /\ ~IsNone(screen.body.detail)
  /\ ~IsNone(Val(screen.body.detail).image_path)
  /\ Val(Val(screen.body.detail).image_path) \in files
  /\ \E case_id \in LookupCases :
       IsNone(get_explainability_image_path(fsys, screen.results_root, case_id))

\* The explorer shows the detail of a case without an image.
C23_WitnessNoImage ==
  /\ screen.body.kind = "case explorer"
  /\ ~IsNone(screen.body.detail)
  /\ IsNone(Val(screen.body.detail).image_path)

\* The case index the last run loaded.
LoadedIndex == Val(Val(bundle).index_df)

\* The other view.
OtherView(view) == IF view = "dashboard" THEN "explorer" ELSE "dashboard"

\* The run that has just ended was that of a press of Reset Filters in
\* `view`: the button's st.rerun() ended it on the view's page (the buttons
\* of the top tables leave page_switch behind).
ResetPressed(view) ==
  /\ runtime.rerun
  /\ screen.page = PageOf(view)
  /\ "page_switch" \notin DOMAIN session_state

\* The page of `view` shows every case of the loaded index.
ShowsAll(scr, view, rows) ==
  /\ scr.page = PageOf(view)
  /\ scr.body.kind = (IF view = "dashboard" THEN "dashboard" ELSE "case explorer")
  /\ Len(scr.body.cases) = Len(rows)
  /\ scr.body.total = Len(rows)

\* The press of Reset Filters in `view` leaves the view in the no-constraint
\* state and the other view as it was, and so does the run that follows.
ResetKept(view) ==
  /\ ResetPressed(view)' =>
       /\ ViewState(session_state', view) = NoConstraint(LoadedIndex')
       /\ ViewState(session_state', OtherView(view)) =
            ViewState(session_state, OtherView(view))
  /\ ResetPressed(view) =>
       /\ ViewState(session_state', view) = NoConstraint(LoadedIndex)
       /\ ViewState(session_state', OtherView(view)) =
            ViewState(session_state, OtherView(view))

\* The run that follows the press shows all the cases (of the explorer,
\* when no search term narrows them).
ResetShown(view) ==
  ( /\ ResetPressed(view)
    /\ Get(session_state', "case_search", "") = "" )
  => ShowsAll(screen', view, LoadedIndex)

C24_ResetRestoresByDefault ==
  [][ ~runtime.keyed =>
        \A view \in Views :
          /\ ResetKept(view)
          /\ screen'.body.kind # "exception" => ResetShown(view) ]_vars

\* Reset Filters has just been pressed on a dashboard filtered to the LOW
\* band (the band is still the state of the multiselect), under a build in
\* which the default is part of a widget's identity.
C24_WitnessByDefault ==
  /\ ~runtime.keyed
  /\ ResetPressed("dashboard")
  /\ session_state["dashboard_risk_select"] = {"LOW"}
  /\ ViewState(session_state, "dashboard") = NoConstraint(LoadedIndex)
  /\ Visited(session_state, "explorer")

\* The page_switch signal is set in the session state.
Signalled(ss) == "page_switch" \in DOMAIN ss

\* The signal is one-shot: the run that finds it renders the page it names
\* and removes it, a run that finds none renders the page of the navigation
\* radio, and only a run that st.rerun() ended leaves the signal behind.
SignalConsumed ==
  /\ Signalled(session_state) =>
       /\ screen'.page = session_state["page_switch"]
       /\ ~Signalled(session_state')
  /\ ~Signalled(session_state) => screen'.page = widgets'.page
  /\ Signalled(session_state') => runtime'.rerun /\ session_state'["page_switch"] = "Case Explorer"

\* C25: after "View in Case Explorer" is pressed the next run renders the
\* Case Explorer and removes page_switch, every later run without a new
\* press renders the page selected in the sidebar navigation, page_switch is
\* never left by a run that was not cut by the button's rerun, and in every
\* run the page rendered is the page the sidebar navigation shows as active.
C25_PageSwitchOneShot == [][ SignalConsumed /\ screen'.page = screen'.nav ]_vars

\* C25 without its last part: what main does with the signal.
C25_SignalConsumed == [][ SignalConsumed ]_vars

\* The run after the button's: the Case Explorer rendered, the signal gone,
\* the navigation still on the Dashboard.
C25_WitnessSwitched ==
  /\ screen.page = "Case Explorer"
  /\ screen.body.kind = "case explorer"
  /\ screen.nav = "Dashboard"
  /\ widgets.page = "Dashboard"
  /\ ~Signalled(session_state)

\* The screen shows the Case Explorer with the detail of case c.
ShowsCase(scr, c) ==
  /\ scr.page = "Case Explorer"
  /\ scr.body.kind = "case explorer"
  /\ scr.body.selected = Some(c)
  /\ ~IsNone(scr.body.detail)
  /\ Val(scr.body.detail).case_data.case_id = c

\* The filter state of the explorer view keeps case c of the loaded index.
ExplorerKeeps(c) == \E i \in 1..Len(Retained("explorer")) : Retained("explorer")[i].case_id = c

\* C26: after the user picks case c under a top table of the dashboard and
\* presses "View in Case Explorer", the run that follows shows the Case
\* Explorer with the detail of case c, whatever the filter states of the two
\* views and the search term left in the explorer.
C26_ViewedCaseShown ==
  [][ Signalled(session_state) => ShowsCase(screen', session_state["case_selector"]) ]_vars

\* C26 for the cases that the explorer's own filter state keeps.
C26_ViewedCaseShownIfKept ==
  [][ ( /\ Signalled(session_state)
        /\ ExplorerKeeps(session_state["case_selector"]) )
      => ShowsCase(screen', session_state["case_selector"]) ]_vars

\* The explorer shows the case picked on the dashboard, which is not the
\* first of the list, while the navigation is still on the Dashboard.
C26_WitnessShown ==
  /\ ShowsCase(screen, 3)
  /\ screen.nav = "Dashboard"
  /\ Len(screen.body.cases) = 3
  /\ session_state["explorer_risk_bands"] = {}

\* The case identifiers of the explorer's case list.
ListedCases(scr) == {scr.body.cases[i].case_id : i \in 1..Len(scr.body.cases)}

\* The explorer's selection is in its view: no case exactly when the view
\* is empty, else a case of the view with the detail of that case.
SelectionInView(scr) ==
  /\ scr.body.kind = "case explorer"
  /\ IsNone(scr.body.selected) <=> ListedCases(scr) = {}
  /\ ~IsNone(scr.body.selected) =>
       /\ Val(scr.body.selected) \in ListedCases(scr)
       /\ ~IsNone(scr.body.detail)
       /\ Val(scr.body.detail).case_data.case_id = Val(scr.body.selected)

\* The case the explorer showed as selected, when the view of this run
\* excludes it, is replaced by the first case of the view in sorted order.
ExcludedReplaced ==
  ( /\ screen.page = "Case Explorer"
    /\ ~IsNone(screen.body.selected)
    /\ ListedCases(screen') # {}
    /\ Val(screen.body.selected) \notin ListedCases(screen') )
  => screen'.body.selected = Some(Min(ListedCases(screen')))

\* The run has rendered the explorer as far as its case list.
ExplorerListed(rt, scr) == scr.page = "Case Explorer" /\ "case_search" \in DOMAIN rt.ids

\* C27: in every run of the Case Explorer the selected case is none, exactly
\* when the filtered and searched view is empty, or a case of that view, so
\* that the detail lookup finds its row; a selection the filters or the
\* search exclude is replaced by the first case_id in sorted order.
C27_SelectionInView ==
  [][ ExplorerListed(runtime', screen') => SelectionInView(screen') /\ ExcludedReplaced ]_vars

\* C27 for the runs whose selection is the selectbox's own (or none yet),
\* not one stored from outside the explorer.
C27_OwnSelectionInView ==
  [][ ( /\ ExplorerListed(runtime', screen')
        /\ "case_selector" \in DOMAIN session_state => "case_selector" \in DOMAIN runtime.ids )
      => SelectionInView(screen') /\ ExcludedReplaced ]_vars

\* The explorer, narrowed to the HIGH band, shows the one case left.
C27_WitnessNarrowed ==
  /\ ExplorerListed(runtime, screen)
  /\ SelectionInView(screen)
  /\ session_state["explorer_risk_bands"] = {"HIGH"}
  /\ screen.body.total = 3
  /\ screen.body.selected = Some(3)

\* The explorer with a view that holds no case.
C27_WitnessNone ==
  /\ ExplorerListed(runtime, screen)
  /\ SelectionInView(screen)
  /\ IsNone(screen.body.selected)

\* The number of rows of a view whose risk band is HIGH.
CountHigh(rows) == Cardinality({i \in 1..Len(rows) : rows[i].risk_band = "HIGH"})

\* The aggregate m (case count, HIGH count, percentage in hundredths of a
\* percent) is that of the view `rows`: the count of HIGH rows, between 0
\* and the case count, and as percentage HIGH / cases * 100, between 0 and
\* 100, or 0 for a view without cases.
HighRiskOf(m, rows) ==
  /\ m.n_cases = Len(rows)
  /\ m.n_high_risk = CountHigh(rows)
  /\ 0 <= m.n_high_risk /\ m.n_high_risk <= m.n_cases
  /\ m.n_cases > 0 => /\ m.pct_high = (m.n_high_risk * 10000) \div m.n_cases
                       /\ 0 <= m.pct_high /\ m.pct_high <= 10000
  /\ m.n_cases = 0 => m.pct_high = 0

\* C28: the high-risk aggregate is well defined for every view: the number
\* of HIGH rows, between 0 and the number of cases, and the percentage
\* n_high_risk / n_cases * 100 within [0, 100], or 0 without cases, on the
\* dashboard over the filtered view and in the sidebar status card over the
\* unfiltered index.
C28_HighRiskAggregate ==
  /\ screen.body.kind = "dashboard" =>
       HighRiskOf(Val(screen.body.metrics), screen.body.cases)
  /\ ~IsNone(screen.status_card) =>
       /\ ~IsNone(bundle)
       /\ HighRiskOf(Val(screen.status_card), LoadedIndex)

\* The dashboard over a filtered view of the HIGH case alone (100 percent)
\* beside the card of the three cases of the index, one of them HIGH.
C28_Witness ==
  /\ screen.body.kind = "dashboard"
  /\ Val(screen.body.metrics).n_cases = 1
  /\ Val(screen.body.metrics).n_high_risk = 1
  /\ Val(screen.body.metrics).pct_high = 10000
  /\ Val(screen.status_card).n_cases = 3
  /\ Val(screen.status_card).pct_high = 3333

\* The dashboard over a view without cases: the percentage is 0.
C28_WitnessEmpty ==
  /\ screen.body.kind = "dashboard"
  /\ Val(screen.body.metrics).n_cases = 0
  /\ Val(screen.body.metrics).pct_high = 0
  /\ Val(screen.status_card).n_high_risk = 1

\* ------------------------------------------------------------ the two modules
\* The table and the generator's state a call of a demo generator gave.
DemoOf(call) == [df |-> Val(call.ret), rng |-> call.arg]

\* A banding policy over Probabilities: each of the four bands of BandOrder is
\* given to some probability, and a higher probability never gets a lower
\* band, so the bands are four intervals in ascending order that share no
\* probability.
FourAscendingBands(band) ==
  /\ {band[p] : p \in Probabilities} = Range(BandOrder)
  /\ \A p, q \in Probabilities : p <= q => Rank(band[p]) <= Rank(band[q])

\* The policies of the two generators.
UtilsPolicy == [p \in Probabilities |-> utils_risk_band_of(p)]
LoaderPolicy == [p \in Probabilities |-> risk_band_of(p)]

\* Each row of the table has the band the policy gives its probability.
BandedBy(rows, band) ==
  \A i \in 1..Len(rows) : rows[i].risk_band = band[rows[i].p_calibrated]

\* The two modules' filters and validators gave the same, and the two demo
\* tables follow policies of four ascending bands.
TwinsAgree ==
  /\ twins.fn \in {"filter_dataframe", "validate_results_structure"} =>
       twins.utils = twins.data_loader
  /\ twins.fn = "generate_demo_data" =>
       /\ FourAscendingBands(UtilsPolicy)
       /\ FourAscendingBands(LoaderPolicy)
       /\ BandedBy(Val(twins.utils.ret), UtilsPolicy)
       /\ BandedBy(Val(twins.data_loader.ret), LoaderPolicy)

\* C29 as the specification states it: the two modules' filters return the
\* same rows in the same order, their validators the same (isValid, missing),
\* both demo generators band by four ascending, non-overlapping bands, and the
\* generators differ only in size, class balance and threshold constants:
\* the body of utils' generator run with data_loader's three constants gives
\* data_loader's table and leaves the generator where data_loader's does.
C29_DifferInConstantsOnly ==
  /\ TwinsAgree
  /\ twins.fn = "generate_demo_data" =>
       utils_demo_data(n_cases, 15, Thresholds, utils_p_draw, twins.rng)
         = DemoOf(twins.data_loader)

\* C29, amended: filters and validators agree and both generators band by
\* four ascending, non-overlapping bands; the generators differ in size,
\* class balance and threshold constants and in how p_calibrated is drawn
\* (utils draws a uniform number first and takes beta(2, 5) or beta(5, 2) by
\* it, data_loader takes beta(3, 4)), and in nothing else: the body of utils'
\* generator run with data_loader's constants and draw gives data_loader's
\* table, and with its own it gives what utils' generator gave.
C29_DifferInConstantsAndDraw ==
  /\ TwinsAgree
  /\ twins.fn = "generate_demo_data" =>
       /\ utils_demo_data(n_cases, 15, Thresholds, loader_p_draw, twins.rng)
            = DemoOf(twins.data_loader)
       /\ utils_demo_data(utils_n_cases, 10, <<30, 60, 80>>, utils_p_draw, twins.rng)
            = DemoOf(twins.utils)
       /\ Len(Val(twins.utils.ret)) = utils_n_cases
       /\ Len(Val(twins.data_loader.ret)) = n_cases

\* C29's case: both generators called; utils' table is the shorter one, and
\* a row of it has a probability data_loader's row does not have, with a band
\* data_loader's policy would not give that probability.
C29_Witness ==
  /\ twins.fn = "generate_demo_data"
  /\ Len(Val(twins.utils.ret)) < Len(Val(twins.data_loader.ret))
  /\ \E i \in 1..utils_n_cases :
       /\ Val(twins.utils.ret)[i].risk_band # LoaderPolicy[Val(twins.utils.ret)[i].p_calibrated]
       /\ Val(twins.utils.ret)[i].p_calibrated # Val(twins.data_loader.ret)[i].p_calibrated

\* C29's case for the filters: both called on an index of MaxRows rows with a
\* filter that keeps some rows and drops others.
C29_WitnessFilter ==
  /\ twins.fn = "filter_dataframe"
  /\ ~IsNone(df)
  /\ Len(Val(df)) = MaxRows
  /\ twins.data_loader.exc = "none"
  /\ Len(Val(twins.data_loader.ret)) \in 1..(MaxRows - 1)
  /\ twins.utils = twins.data_loader

\* C29's case for the validators: both called on a root that lacks one of
\* the two required files.
C29_WitnessValidate ==
  /\ twins.fn = "validate_results_structure"
  /\ Len(twins.data_loader.ret[2]) = 1
  /\ twins.utils = twins.data_loader

====
